---- MODULE Spec2Model ----
(***************************************************************************)
(* Model of core/calendario_service.py (CalendarioService): the holiday    *)
(* aggregator with its lru_cache, the CPC art. 220 recess generator, the   *)
(* business-day arithmetic and the DJE deadline protocol.                  *)
(*                                                                         *)
(* A date is its proleptic Gregorian ordinal (datetime.date.toordinal), a  *)
(* datetime is a pair <<ordinal, second of the day>>, a str is a sequence  *)
(* of one-character strings and None is the value None below.              *)
(***************************************************************************)
EXTENDS Integers, Sequences, FiniteSets, TLC

VARIABLES
    store,      \* the rows of the Holiday Store (table feriados)
    cache,      \* the lru_cache of _feriados_aplicaveis_cached
    chamada,    \* the last operation: its arguments and what it returned
    historico,  \* the operations so far, oldest first
    emcurso,    \* per thread, the call it is executing and where in it the thread is
    relogio     \* the steps executed by threads inside their calls, modulo 2

vars == <<store, cache, chamada, historico, emcurso, relogio>>

(***************************************************************************)
(* datetime.date: ordinals, calendar fields, weekday, ISO format           *)
(***************************************************************************)

is_leap(y) == y % 4 = 0 /\ (y % 100 # 0 \/ y % 400 = 0)

days_before_year(y) ==
    LET p == y - 1 IN p * 365 + (p \div 4) - (p \div 100) + (p \div 400)

DAYS_BEFORE_MONTH == <<0, 31, 59, 90, 120, 151, 181, 212, 243, 273, 304, 334>>

DAYS_IN_MONTH == <<31, 28, 31, 30, 31, 30, 31, 31, 30, 31, 30, 31>>

days_before_month(y, m) ==
    DAYS_BEFORE_MONTH[m] + (IF m > 2 /\ is_leap(y) THEN 1 ELSE 0)

days_in_month(y, m) == IF m = 2 /\ is_leap(y) THEN 29 ELSE DAYS_IN_MONTH[m]

\* date(y, m, d): the ordinal of a calendar day
date(y, m, d) == days_before_year(y) + days_before_month(y, m) + d

\* the (year, month, day) of an ordinal, as datetime._ord2ymd computes it
ord2ymd(n) ==
    LET n0   == n - 1
        n400 == n0 \div 146097
        r1   == n0 % 146097
        n100 == r1 \div 36524
        r2   == r1 % 36524
        n4   == r2 \div 1461
        r3   == r2 % 1461
        n1   == r3 \div 365
        r4   == r3 % 365
        y    == n400 * 400 + 1 + n100 * 100 + n4 * 4 + n1
    IN  IF n1 = 4 \/ n100 = 4
        THEN <<y - 1, 12, 31>>
        ELSE LET m0 == (r4 + 50) \div 32
                 p0 == days_before_month(y, m0)
                 m  == IF p0 > r4 THEN m0 - 1 ELSE m0
                 p  == IF p0 > r4 THEN p0 - days_in_month(y, m) ELSE p0
             IN  <<y, m, r4 - p + 1>>

year(d) == ord2ymd(d)[1]

\* date.weekday(): Monday is 0, Sunday is 6
weekday(d) == (d + 6) % 7

\* date.isoformat(): "YYYY-MM-DD", kept as its three fields
isoformat(d) == ord2ymd(d)

\* date.fromisoformat()
fromisoformat(iso) == date(iso[1], iso[2], iso[3])

\* CalendarioService._to_dt: the datetime at midnight of a date
to_dt(d) == <<d, 0>>

\* datetime ordering and datetime.date()
dt_lt(a, b) == a[1] < b[1] \/ (a[1] = b[1] /\ a[2] < b[2])

dt_le(a, b) == a = b \/ dt_lt(a, b)

dt_date(dt) == dt[1]

(***************************************************************************)
(* str: the operations of the normalizer and the matcher                   *)
(***************************************************************************)

None == <<"None">>

Whitespace == {" ", "\t"}

UPPER == <<"A", "B", "C", "D", "E", "F", "G", "H", "I", "J", "K", "L", "M",
           "N", "O", "P", "Q", "R", "S", "T", "U", "V", "W", "X", "Y", "Z">>

LOWER == <<"a", "b", "c", "d", "e", "f", "g", "h", "i", "j", "k", "l", "m",
           "n", "o", "p", "q", "r", "s", "t", "u", "v", "w", "x", "y", "z">>

\* accented letters and their base letter (NFKD, combining marks removed)
ACCENTED == <<"á", "ã", "â", "ç", "é", "ê", "í", "ó", "õ", "ú", "Á", "É", "Í", "Ó", "Ú", "Ç">>

UNACCENTED == <<"a", "a", "a", "c", "e", "e", "i", "o", "o", "u", "A", "E", "I", "O", "U", "C">>

map_char(c, from, to) ==
    IF \E i \in 1..Len(from) : from[i] = c
    THEN to[CHOOSE i \in 1..Len(from) : from[i] = c]
    ELSE c

\* str.lower() and str.upper()
lower(s) == [i \in 1..Len(s) |-> map_char(s[i], UPPER, LOWER)]

upper(s) == [i \in 1..Len(s) |-> map_char(s[i], LOWER, UPPER)]

\* CalendarioService._strip_accents
strip_accents(s) == [i \in 1..Len(s) |-> map_char(s[i], ACCENTED, UNACCENTED)]

RECURSIVE lstrip(_)
lstrip(s) == IF s # <<>> /\ Head(s) \in Whitespace THEN lstrip(Tail(s)) ELSE s

RECURSIVE rstrip(_)
rstrip(s) ==
    IF s # <<>> /\ s[Len(s)] \in Whitespace
    THEN rstrip(SubSeq(s, 1, Len(s) - 1))
    ELSE s

\* str.strip()
strip(s) == rstrip(lstrip(s))

startswith(v, p) == Len(p) <= Len(v) /\ SubSeq(v, 1, Len(p)) = p

endswith(v, p) == Len(p) <= Len(v) /\ SubSeq(v, Len(v) - Len(p) + 1, Len(v)) = p

\* str.find, 1-based; 0 when sub does not occur
find(v, sub) ==
    LET hits == {i \in 1..(Len(v) - Len(sub) + 1) : SubSeq(v, i, i + Len(sub) - 1) = sub}
    IN  IF hits = {} THEN 0 ELSE CHOOSE i \in hits : \A j \in hits : i <= j

\* sub in v
contains(v, sub) == find(v, sub) # 0

\* v.split(sep, 1)[0]
before(v, sep) == LET k == find(v, sep) IN IF k = 0 THEN v ELSE SubSeq(v, 1, k - 1)

\* str.split(): the maximal runs of non-whitespace
RECURSIVE split(_)
split(s) ==
    LET t == lstrip(s)
    IN  IF t = <<>>
        THEN <<>>
        ELSE LET ws == {i \in 1..Len(t) : t[i] \in Whitespace}
                 k  == IF ws = {} THEN Len(t) + 1
                       ELSE CHOOSE i \in ws : \A j \in ws : i <= j
             IN  <<SubSeq(t, 1, k - 1)>> \o split(SubSeq(t, k, Len(t)))

\* " ".join(tokens)
RECURSIVE join(_)
join(tokens) ==
    IF tokens = <<>> THEN <<>>
    ELSE IF Len(tokens) = 1 THEN tokens[1]
    ELSE tokens[1] \o <<" ">> \o join(Tail(tokens))

(***************************************************************************)
(* Normalization of localities and scopes; tolerant matching               *)
(***************************************************************************)

PREFIXES ==
    << <<"c", "o", "m", "a", "r", "c", "a", " ", "d", "e", " ">>,
       <<"f", "o", "r", "o", " ", "d", "e", " ">>,
       <<"f", "o", "r", "o", " ", "d", "a", " ">>,
       <<"f", "o", "r", "o", " ", "d", "o", " ">>,
       <<"m", "u", "n", "i", "c", "i", "p", "i", "o", " ", "d", "e", " ">> >>

\* a normalizer that removes no prefix
sem_prefixos(v, i) == v

\* the loop "for prefix in (...)": each prefix is tried once, in order
RECURSIVE strip_prefixes(_, _)
strip_prefixes(v, i) ==
    IF i > Len(PREFIXES) THEN v
    ELSE strip_prefixes(IF startswith(v, PREFIXES[i])
                        THEN strip(SubSeq(v, Len(PREFIXES[i]) + 1, Len(v)))
                        ELSE v,
                        i + 1)

\* "if '/' in v", "if ' - ' in v": keep what precedes the separator
cut_at(v, sep) == IF contains(v, sep) THEN strip(before(v, sep)) ELSE v

\* "if v.endswith(' sp')"
cut_sp(v) ==
    IF endswith(v, <<" ", "s", "p">>) THEN strip(SubSeq(v, 1, Len(v) - 3)) ELSE v

\* "return v or None"
or_none(v) == IF v = <<>> THEN None ELSE v

\* _norm from "v = _strip_accents(v).lower()" to the return, v stripped and not empty
norm_stripped(v) ==
    IF v = <<>> THEN None
    ELSE or_none(cut_sp(cut_at(cut_at(strip_prefixes(join(split(lower(strip_accents(v)))), 1),
                                      <<"/">>),
                               <<" ", "-", " ">>)))

\* CalendarioService._norm
norm(s) == IF s = None \/ s = <<>> THEN None ELSE norm_stripped(strip(s))

NACIONAL == <<"N", "A", "C", "I", "O", "N", "A", "L">>

ESTADUAL_SP == <<"E", "S", "T", "A", "D", "U", "A", "L", "_", "S", "P">>

TJSP_GERAL == <<"T", "J", "S", "P", "_", "G", "E", "R", "A", "L">>

MUNICIPAL == <<"M", "U", "N", "I", "C", "I", "P", "A", "L">>

TJSP_COMARCA == <<"T", "J", "S", "P", "_", "C", "O", "M", "A", "R", "C", "A">>

ESCOPO_ALIASES ==
    {  <<<<"E", "S", "T", "A", "D", "U", "A", "L">>, ESTADUAL_SP>>,
       <<<<"S", "P", "_", "E", "S", "T", "A", "D", "U", "A", "L">>, ESTADUAL_SP>>,
       <<<<"E", "S", "T", "A", "D", "U", "A", "L", "-", "S", "P">>, ESTADUAL_SP>>,
       <<<<"E", "S", "T", "A", "D", "U", "A", "L", " ", "S", "P">>, ESTADUAL_SP>>,
       <<<<"T", "J", "S", "P">>, TJSP_GERAL>>,
       <<<<"R", "E", "C", "E", "S", "S", "O", "_", "T", "J", "S", "P">>, TJSP_GERAL>>,
       <<<<"R", "E", "C", "E", "S", "S", "O", " ", "T", "J", "S", "P">>, TJSP_GERAL>>,
       <<<<"C", "P", "C", "2", "2", "0">>, TJSP_GERAL>>,
       <<<<"C", "P", "C", " ", "2", "2", "0">>, TJSP_GERAL>>,
       <<<<"C", "P", "C", "_", "2", "2", "0">>, TJSP_GERAL>>,
       <<<<"C", "P", "C", "-", "2", "2", "0">>, TJSP_GERAL>>,
       <<<<"A", "R", "T", "_", "2", "2", "0">>, TJSP_GERAL>>,
       <<<<"A", "R", "T", " ", "2", "2", "0">>, TJSP_GERAL>>,
       <<<<"A", "R", "T", "I", "G", "O", "_", "2", "2", "0">>, TJSP_GERAL>>,
       <<<<"A", "R", "T", "I", "G", "O", " ", "2", "2", "0">>, TJSP_GERAL>> }

\* a lookup that knows no alias
sem_alias(esc) == esc

\* _ESCOPO_ALIASES.get(esc, esc)
alias_get(esc) ==
    IF \E al \in ESCOPO_ALIASES : al[1] = esc
    THEN (CHOOSE al \in ESCOPO_ALIASES : al[1] = esc)[2]
    ELSE esc

\* CalendarioService._norm_escopo
norm_escopo(s) == alias_get(upper(strip(IF s = None THEN <<>> ELSE s)))

\* set(tokens)
seq_set(q) == {q[i] : i \in 1..Len(q)}

\* a matcher that takes a missing target for a match
match_local_sem_alvo(loc_norm, alvo_norm) ==
    IF loc_norm = None \/ loc_norm = <<>> THEN FALSE
    ELSE alvo_norm = None \/ alvo_norm = <<>> \/ loc_norm = alvo_norm

\* a matcher that stops after the substring test
match_local_sem_tokens(loc_norm, alvo_norm) ==
    IF loc_norm = None \/ loc_norm = <<>> \/ alvo_norm = None \/ alvo_norm = <<>>
    THEN FALSE
    ELSE \/ loc_norm = alvo_norm
         \/ startswith(loc_norm, alvo_norm) \/ startswith(alvo_norm, loc_norm)
         \/ contains(loc_norm, alvo_norm) \/ contains(alvo_norm, loc_norm)

\* CalendarioService._match_local
match_local(loc_norm, alvo_norm) ==
    IF loc_norm = None \/ loc_norm = <<>> \/ alvo_norm = None \/ alvo_norm = <<>>
    THEN FALSE
    ELSE \/ loc_norm = alvo_norm
         \/ startswith(loc_norm, alvo_norm) \/ startswith(alvo_norm, loc_norm)
         \/ contains(loc_norm, alvo_norm) \/ contains(alvo_norm, loc_norm)
         \/ seq_set(split(loc_norm)) \cap seq_set(split(alvo_norm)) # {}

(***************************************************************************)
(* CPC art. 220: the automatic recess, Dec 20 to Jan 20 inclusive          *)
(***************************************************************************)

max(a, b) == IF a >= b THEN a ELSE b

min(a, b) == IF a <= b THEN a ELSE b

\* a recess that ends on Jan 19: one day short of the rule
recesso_ate_19_jan(y, inicio, fim) ==
    max(inicio, date(y, 12, 20)) .. min(fim, date(y + 1, 1, 19))

\* the days of the recess that starts on Dec 20 of year y, inside [inicio, fim]
recesso_do_ano(y, inicio, fim) ==
    max(inicio, date(y, 12, 20)) .. min(fim, date(y + 1, 1, 20))

\* the body of _dias_recesso_cpc220 for inicio <= fim, given the two years
recesso_dos_anos(inicio, fim, yi, yf) ==
    UNION {recesso_do_ano(y, inicio, fim) : y \in {yi, yf, yi - 1, yf + 1}}

\* CalendarioService._dias_recesso_cpc220
dias_recesso_cpc220(inicio, fim) ==
    IF fim < inicio THEN {} ELSE recesso_dos_anos(inicio, fim, year(inicio), year(fim))

(***************************************************************************)
(* Holiday rows of the store, locality context, rules                      *)
(***************************************************************************)

\* RegrasCalendario(): every flag defaults to True
RegrasCalendario ==
    [incluir_nacional |-> TRUE, incluir_estadual_sp |-> TRUE, incluir_tjsp_geral |-> TRUE,
     incluir_tjsp_comarca |-> TRUE, incluir_municipal |-> TRUE]

\* the argument regras=None
SemRegras == [none |-> TRUE]

\* "regras or RegrasCalendario()"
regras_or_default(regras) == IF regras = SemRegras THEN RegrasCalendario ELSE regras

\* a query whose upper bound is the midnight of fim itself
feriados_ate_a_vespera(st, inicio, fim) ==
    {f \in st : dt_le(to_dt(inicio), f.data) /\ dt_lt(f.data, to_dt(fim))}

\* CalendarioService._feriados_periodo: the rows with inicio 00:00 <= data < fim + 1 day 00:00
feriados_periodo(st, inicio, fim) ==
    LET ini_dt        == to_dt(inicio)
        fim_exclusivo == to_dt(fim + 1)
    IN  {f \in st : dt_le(ini_dt, f.data) /\ dt_lt(f.data, fim_exclusivo)}

AUTO_MUNICIPIO_BY_COMARCA ==
    { << <<"i", "l", "h", "a", "b", "e", "l", "a">>, <<"i", "l", "h", "a", "b", "e", "l", "a">> >> }

\* AUTO_MUNICIPIO_BY_COMARCA.get(comarca_norm, comarca_norm)
auto_municipio(comarca_norm) ==
    IF \E e \in AUTO_MUNICIPIO_BY_COMARCA : e[1] = comarca_norm
    THEN (CHOOSE e \in AUTO_MUNICIPIO_BY_COMARCA : e[1] = comarca_norm)[2]
    ELSE comarca_norm

\* a context that never derives the municipality from the comarca
contexto_sem_padrao(comarca_norm, municipio_norm) ==
    [comarca |-> comarca_norm, municipio |-> municipio_norm]

\* _resolve_context once both strings are normalized
contexto_local(comarca_norm, municipio_norm) ==
    IF comarca_norm # None /\ municipio_norm = None
    THEN [comarca |-> comarca_norm, municipio |-> auto_municipio(comarca_norm)]
    ELSE [comarca |-> comarca_norm, municipio |-> municipio_norm]

\* CalendarioService._resolve_context
resolve_context(comarca, municipio, aplicar_local) ==
    IF ~aplicar_local
    THEN [comarca |-> None, municipio |-> None]
    ELSE contexto_local(norm(comarca), norm(municipio))

\* a resolver that tries only the municipality for MUNICIPAL rows
aplicavel_so_municipio(esc, loc, ctx, regras) ==
    IF esc = NACIONAL THEN regras.incluir_nacional
    ELSE IF esc = ESTADUAL_SP THEN regras.incluir_estadual_sp
    ELSE IF esc = TJSP_GERAL THEN regras.incluir_tjsp_geral
    ELSE IF esc = MUNICIPAL
         THEN regras.incluir_municipal /\ match_local(loc, ctx.municipio)
    ELSE IF esc = TJSP_COMARCA
         THEN regras.incluir_tjsp_comarca /\ match_local(loc, ctx.comarca)
    ELSE FALSE

\* a resolver that also tries the municipality for TJSP_COMARCA rows
aplicavel_comarca_ou_municipio(esc, loc, ctx, regras) ==
    IF esc = NACIONAL THEN regras.incluir_nacional
    ELSE IF esc = ESTADUAL_SP THEN regras.incluir_estadual_sp
    ELSE IF esc = TJSP_GERAL THEN regras.incluir_tjsp_geral
    ELSE IF esc = MUNICIPAL
         THEN regras.incluir_municipal
              /\ (match_local(loc, ctx.municipio) \/ match_local(loc, ctx.comarca))
    ELSE IF esc = TJSP_COMARCA
         THEN regras.incluir_tjsp_comarca
              /\ (match_local(loc, ctx.comarca) \/ match_local(loc, ctx.municipio))
    ELSE FALSE

\* a resolver that gates the state rows by the national flag
aplicavel_estadual_por_nacional(esc, loc, ctx, regras) ==
    IF esc = NACIONAL THEN regras.incluir_nacional
    ELSE IF esc = ESTADUAL_SP THEN regras.incluir_nacional
    ELSE IF esc = TJSP_GERAL THEN regras.incluir_tjsp_geral
    ELSE IF esc = MUNICIPAL
         THEN regras.incluir_municipal
              /\ (match_local(loc, ctx.municipio) \/ match_local(loc, ctx.comarca))
    ELSE IF esc = TJSP_COMARCA
         THEN regras.incluir_tjsp_comarca /\ match_local(loc, ctx.comarca)
    ELSE FALSE

\* a resolver that takes a row of any other scope for a national one
aplicavel_outros_como_nacional(esc, loc, ctx, regras) ==
    IF esc = ESTADUAL_SP THEN regras.incluir_estadual_sp
    ELSE IF esc = TJSP_GERAL THEN regras.incluir_tjsp_geral
    ELSE IF esc = MUNICIPAL
         THEN regras.incluir_municipal
              /\ (match_local(loc, ctx.municipio) \/ match_local(loc, ctx.comarca))
    ELSE IF esc = TJSP_COMARCA
         THEN regras.incluir_tjsp_comarca /\ match_local(loc, ctx.comarca)
    ELSE regras.incluir_nacional

\* _eh_aplicavel once the row's scope and locality are normalized
aplicavel_norm(esc, loc, ctx, regras) ==
    IF esc = NACIONAL THEN regras.incluir_nacional
    ELSE IF esc = ESTADUAL_SP THEN regras.incluir_estadual_sp
    ELSE IF esc = TJSP_GERAL THEN regras.incluir_tjsp_geral
    ELSE IF esc = MUNICIPAL
         THEN IF ~regras.incluir_municipal THEN FALSE
              ELSE match_local(loc, ctx.municipio) \/ match_local(loc, ctx.comarca)
    ELSE IF esc = TJSP_COMARCA
         THEN IF ~regras.incluir_tjsp_comarca THEN FALSE
              ELSE match_local(loc, ctx.comarca)
    ELSE FALSE

\* CalendarioService._eh_aplicavel
eh_aplicavel(f, ctx, regras) == aplicavel_norm(norm_escopo(f.escopo), norm(f.local), ctx, regras)

(***************************************************************************)
(* The aggregator and its lru_cache                                        *)
(*                                                                         *)
(* The cache is the sequence of its entries [key, val], least recently     *)
(* used first.  Operations that read through the cache return a record     *)
(* with the value and the cache they leave behind.                         *)
(***************************************************************************)

\* @lru_cache(maxsize=4096)
CACHE_MAXSIZE == 4096

b2i(b) == IF b THEN 1 ELSE 0

\* the tuple regras_key built by feriados_aplicaveis
regras_key(r) ==
    <<b2i(r.incluir_nacional), b2i(r.incluir_estadual_sp), b2i(r.incluir_tjsp_geral),
      b2i(r.incluir_tjsp_comarca), b2i(r.incluir_municipal)>>

\* RegrasCalendario(...) rebuilt from the key with bool()
regras_da_chave(rk) ==
    [incluir_nacional     |-> rk[1] # 0,
     incluir_estadual_sp  |-> rk[2] # 0,
     incluir_tjsp_geral   |-> rk[3] # 0,
     incluir_tjsp_comarca |-> rk[4] # 0,
     incluir_municipal    |-> rk[5] # 0]

\* "1) Feriados do BD": the dates of the applicable rows of the interval
datas_do_bd(st, inicio, fim, ctx, regras) ==
    {dt_date(f.data) : f \in {g \in feriados_periodo(st, inicio, fim) : eh_aplicavel(g, ctx, regras)}}

\* "2) CPC art. 220 automatico (somente se TJSP geral estiver habilitado)"
aplicaveis(st, inicio, fim, ctx, regras) ==
    IF regras.incluir_tjsp_geral
    THEN datas_do_bd(st, inicio, fim, ctx, regras) \cup dias_recesso_cpc220(inicio, fim)
    ELSE datas_do_bd(st, inicio, fim, ctx, regras)

\* the body of _feriados_aplicaveis_cached: what a cache miss computes from the store
feriados_aplicaveis_cached(st, inicio_iso, fim_iso, comarca_norm, municipio_norm, rk) ==
    aplicaveis(st, fromisoformat(inicio_iso), fromisoformat(fim_iso),
               [comarca |-> comarca_norm, municipio |-> municipio_norm], regras_da_chave(rk))

\* a lookup that compares the interval of the key only
cache_index_por_intervalo(ca, key) ==
    IF \E i \in 1..Len(ca) : ca[i].key[1] = key[1] /\ ca[i].key[2] = key[2]
    THEN CHOOSE i \in 1..Len(ca) : ca[i].key[1] = key[1] /\ ca[i].key[2] = key[2]
    ELSE 0

\* the position of the key in the cache, 0 when it is not there
cache_index(ca, key) ==
    IF \E i \in 1..Len(ca) : ca[i].key = key
    THEN CHOOSE i \in 1..Len(ca) : ca[i].key = key
    ELSE 0

cache_remove(ca, i) == SubSeq(ca, 1, i - 1) \o SubSeq(ca, i + 1, Len(ca))

\* a hit returns the stored value and makes the entry the most recent one
lru_hit(ca, i) ==
    [val |-> ca[i].val, cache |-> Append(cache_remove(ca, i), ca[i]), hit |-> TRUE]

\* a miss stores the computed value, evicting the least recently used entry when full
lru_miss(ca, key, v) ==
    [val |-> v,
     cache |-> Append(IF Len(ca) >= CACHE_MAXSIZE THEN Tail(ca) ELSE ca, [key |-> key, val |-> v]),
     hit |-> FALSE]

\* the lru_cache wrapper around _feriados_aplicaveis_cached
lru_call(st, ca, key) ==
    IF cache_index(ca, key) # 0
    THEN lru_hit(ca, cache_index(ca, key))
    ELSE lru_miss(ca, key,
                  feriados_aplicaveis_cached(st, key[1], key[2], key[3], key[4], key[5]))

\* the arguments feriados_aplicaveis passes to the cached function
chave(inicio, fim, ctx, r) ==
    <<isoformat(inicio), isoformat(fim), ctx.comarca, ctx.municipio, regras_key(r)>>

cache_key(inicio, fim, comarca, municipio, aplicar_local, regras) ==
    chave(inicio, fim, resolve_context(comarca, municipio, aplicar_local),
          regras_or_default(regras))

\* CalendarioService.feriados_aplicaveis
feriados_aplicaveis(st, ca, inicio, fim, comarca, municipio, aplicar_local, regras) ==
    lru_call(st, ca, cache_key(inicio, fim, comarca, municipio, aplicar_local, regras))

(***************************************************************************)
(* Business days                                                           *)
(***************************************************************************)

\* CalendarioService.eh_dia_util
eh_dia_util(d, feriados) == weekday(d) < 5 /\ d \notin feriados

\* the loop of proximo_dia_util
RECURSIVE proximo_loop(_, _)
proximo_loop(atual, fer) ==
    IF ~eh_dia_util(atual, fer) THEN proximo_loop(atual + 1, fer) ELSE atual

\* the lookahead of proximo_dia_util: timedelta(days=60)
JANELA_PROXIMO_DIAS == 60

\* proximo_dia_util once the holidays of the lookahead are fetched
proximo_com(d, fer) == [erro |-> "", val |-> proximo_loop(d, fer.val), cache |-> fer.cache]

\* CalendarioService.proximo_dia_util
proximo_dia_util(st, ca, d, comarca, municipio, aplicar_local, regras) ==
    proximo_com(d, feriados_aplicaveis(st, ca, d, d + JANELA_PROXIMO_DIAS, comarca, municipio,
                                       aplicar_local, regras_or_default(regras)))

MARGEM_INICIAL_DIAS == 120

MARGEM_CRESCIMENTO_DIAS == 120

\* a growth that joins the new window and leaves the end of the window where it was
juntar_sem_avancar(s, novo_fim, mais) ==
    [s EXCEPT !.feriados = @ \cup mais.val, !.cache = mais.cache, !.janelas = @ + 1]

\* "feriados |= ...; fim_janela = novo_fim"
juntar(s, novo_fim, mais) ==
    [s EXCEPT !.feriados = @ \cup mais.val, !.fim_janela = novo_fim,
              !.cache = mais.cache, !.janelas = @ + 1]

\* "if atual > fim_janela": fetch the next window and join it to the working set
crescer(a, s) ==
    IF s.atual > s.fim_janela
    THEN juntar(s, s.fim_janela + a.margem_crescimento,
                feriados_aplicaveis(a.st, s.cache, s.fim_janela + 1,
                                    s.fim_janela + a.margem_crescimento,
                                    a.comarca, a.municipio, a.aplicar_local, a.regras))
    ELSE s

\* a counting loop that moves the cursor on after the last counted day too
contar_e_avancar(a, s) ==
    IF eh_dia_util(s.atual, s.feriados)
    THEN IF s.contador + 1 = a.dias
         THEN [s EXCEPT !.contador = @ + 1, !.atual = @ + 1, !.fase = "garantir"]
         ELSE [s EXCEPT !.contador = @ + 1, !.atual = @ + 1]
    ELSE [s EXCEPT !.atual = @ + 1]

\* the rest of an iteration of "while contador < dias", the window grown
contar(a, s) ==
    IF eh_dia_util(s.atual, s.feriados)
    THEN IF s.contador + 1 = a.dias
         THEN [s EXCEPT !.contador = @ + 1, !.fase = "garantir"]
         ELSE [s EXCEPT !.contador = @ + 1, !.atual = @ + 1]
    ELSE [s EXCEPT !.atual = @ + 1]

\* a final loop that steps once past a non-business day and stops there
garantir_um_passo(a, s) ==
    IF eh_dia_util(s.atual, s.feriados)
    THEN [s EXCEPT !.fase = "fim"]
    ELSE [s EXCEPT !.atual = @ + 1, !.fase = "fim"]

\* a final loop whose cursor stays where it is on a non-business day
garantir_parado(a, s) ==
    IF eh_dia_util(s.atual, s.feriados)
    THEN [s EXCEPT !.fase = "fim"]
    ELSE s

\* the rest of an iteration of the "while True" that guarantees a business day
garantir(a, s) ==
    IF eh_dia_util(s.atual, s.feriados)
    THEN [s EXCEPT !.fase = "fim"]
    ELSE [s EXCEPT !.atual = @ + 1]

\* one iteration of "while contador < dias" (fase "contar"), then of "while True"
\* (fase "garantir"); "fim" is the return
passo(a, s) ==
    IF s.fase = "contar"
    THEN IF s.contador < a.dias
         THEN contar(a, crescer(a, s))
         ELSE [s EXCEPT !.fase = "garantir"]
    ELSE IF s.fase = "garantir"
    THEN garantir(a, crescer(a, s))
    ELSE s

\* k iterations in a row, stopping at the return
RECURSIVE repetir(_, _, _)
RECURSIVE seguir(_, _, _)
repetir(a, s, k) ==
    IF k = 0 THEN s
    ELSE IF k = 1 THEN passo(a, s)
    ELSE seguir(a, repetir(a, s, k \div 2), k - (k \div 2))

seguir(a, s, k) == IF s.fase = "fim" THEN s ELSE repetir(a, s, k)

\* the two loops run to the return
RECURSIVE executar(_, _, _)
RECURSIVE retomar(_, _, _)
executar(a, s, k) == retomar(a, repetir(a, s, k), 2 * k)

retomar(a, s, k) == IF s.fase = "fim" THEN s ELSE executar(a, s, k)

\* the locals of somar_dias_uteis when its first loop starts
estado_inicial(atual, fim_janela, feriados) ==
    [atual |-> atual, fim_janela |-> fim_janela, feriados |-> feriados.val,
     contador |-> 0, cache |-> feriados.cache, janelas |-> 1, fase |-> "contar"]

\* "return atual"
retorno(s) == [erro |-> "", val |-> s.atual, cache |-> s.cache, janelas |-> s.janelas]

\* somar_dias_uteis from the cursor on
somar_de(a, ca, atual, fim_janela) ==
    retorno(executar(a,
                     estado_inicial(atual, fim_janela,
                                    feriados_aplicaveis(a.st, ca, atual, fim_janela, a.comarca,
                                                        a.municipio, a.aplicar_local, a.regras)),
                     1))

\* somar_dias_uteis without "if dias < 0: raise ValueError"
somar_sem_validacao(st, ca, data_base, dias, comarca, municipio, excluir_dia_inicial, aplicar_local, regras, mi, mc) ==
    somar_de([st |-> st, dias |-> dias, comarca |-> comarca, municipio |-> municipio,
              aplicar_local |-> aplicar_local, regras |-> regras_or_default(regras),
              margem_crescimento |-> mc],
             ca,
             IF excluir_dia_inicial THEN data_base + 1 ELSE data_base,
             (IF excluir_dia_inicial THEN data_base + 1 ELSE data_base) + (dias + mi))

\* somar_dias_uteis with its two margins as parameters
somar_com_margens(st, ca, data_base, dias, comarca, municipio, excluir_dia_inicial, aplicar_local, regras, mi, mc) ==
    IF dias < 0
    THEN [erro |-> "ValueError", val |-> 0, cache |-> ca, janelas |-> 0]
    ELSE somar_de([st |-> st, dias |-> dias, comarca |-> comarca, municipio |-> municipio,
                   aplicar_local |-> aplicar_local, regras |-> regras_or_default(regras),
                   margem_crescimento |-> mc],
                  ca,
                  IF excluir_dia_inicial THEN data_base + 1 ELSE data_base,
                  (IF excluir_dia_inicial THEN data_base + 1 ELSE data_base) + (dias + mi))

\* CalendarioService.somar_dias_uteis
somar_dias_uteis(st, ca, data_base, dias, comarca, municipio, excluir_dia_inicial, aplicar_local, regras) ==
    somar_com_margens(st, ca, data_base, dias, comarca, municipio, excluir_dia_inicial,
                      aplicar_local, regras, MARGEM_INICIAL_DIAS, MARGEM_CRESCIMENTO_DIAS)

\* what prazo_dje_tjsp returns, with the publication date it used
com_publicacao(publicacao, prazo) ==
    [erro |-> prazo.erro, val |-> prazo.val, cache |-> prazo.cache, publicacao |-> publicacao]

\* "contagem exclui o dia da publicacao"
prazo_de(st, publicacao, dias_uteis, comarca, municipio, aplicar_local, r) ==
    com_publicacao(publicacao.val,
                   somar_dias_uteis(st, publicacao.cache, publicacao.val, dias_uteis,
                                    comarca, municipio, TRUE, aplicar_local, r))

\* a deadline whose publication search starts on the availability date itself
prazo_sem_dia_seguinte(st, ca, disponibilizacao, dias_uteis, comarca, municipio, aplicar_local, regras) ==
    prazo_de(st,
             proximo_dia_util(st, ca, disponibilizacao, comarca, municipio, aplicar_local,
                              regras_or_default(regras)),
             dias_uteis, comarca, municipio, aplicar_local, regras_or_default(regras))

\* CalendarioService.prazo_dje_tjsp
prazo_dje_tjsp(st, ca, disponibilizacao, dias_uteis, comarca, municipio, aplicar_local, regras) ==
    prazo_de(st,
             proximo_dia_util(st, ca, disponibilizacao + 1, comarca, municipio, aplicar_local,
                              regras_or_default(regras)),
             dias_uteis, comarca, municipio, aplicar_local, regras_or_default(regras))

(***************************************************************************)
(* Inputs                                                                  *)
(***************************************************************************)

\* a row of the store: Feriado.data is a DateTime, stored at midnight
Feriado(d, escopo, local) == [data |-> to_dt(d), escopo |-> escopo, local |-> local]

Ilhabela_SP == <<"I", "l", "h", "a", "b", "e", "l", "a", "/", "S", "P">>

Foro_de_Ilhabela ==
    <<"F", "o", "r", "o", " ", "d", "e", " ", "I", "l", "h", "a", "b", "e", "l", "a">>

F_NACIONAL == Feriado(date(2025, 12, 12), <<" ", "N", "a", "c", "i", "o", "n", "a", "l", " ">>, None)

F_MUNICIPAL == Feriado(date(2026, 2, 3), MUNICIPAL, Foro_de_Ilhabela)

F_CPC220 == Feriado(date(2026, 2, 4), <<"c", "p", "c", "2", "2", "0">>, <<>>)

F_OUTRO == Feriado(date(2026, 2, 5), <<"F", "E", "R", "I", "A", "D", "O">>, None)

F_COMARCA == Feriado(date(2026, 2, 6), TJSP_COMARCA, <<"I", "l", "h", "a", "b", "e", "l", "a">>)

FeriadosVariados == {F_NACIONAL, F_MUNICIPAL, F_CPC220, F_OUTRO, F_COMARCA}

\* a long suspension of deadlines entered as court-general rows, one per weekday
BlocoDias == 100

BlocoSuspensao ==
    {Feriado(d, <<"T", "J", "S", "P">>, None) :
        d \in {x \in date(2026, 1, 21)..(date(2026, 1, 21) + BlocoDias) : weekday(x) < 5}}

\* the store contents the one-call specification starts from
StoresPuros == {{}, FeriadosVariados, BlocoSuspensao}

\* (comarca, municipio, aplicar_local) as callers pass them
Contextos == {<<None, None, TRUE>>, <<Ilhabela_SP, None, TRUE>>, <<Ilhabela_SP, <<" ">>, FALSE>>}

TodasFalsas ==
    [incluir_nacional |-> FALSE, incluir_estadual_sp |-> FALSE, incluir_tjsp_geral |-> FALSE,
     incluir_tjsp_comarca |-> FALSE, incluir_municipal |-> FALSE]

Regras ==
    {SemRegras, TodasFalsas,
     [RegrasCalendario EXCEPT !.incluir_tjsp_geral = FALSE],
     [RegrasCalendario EXCEPT !.incluir_municipal = FALSE]}

\* base dates: a few days from each start
BaseSpan == 4

BaseStarts == {date(2025, 12, 10), date(2025, 12, 26), date(2026, 1, 30)}

Datas == UNION {b..(b + BaseSpan) : b \in BaseStarts}

\* counts of business days: the small ones, those of the scenarios, a long one, and the
\* negative ones a caller may pass by mistake
MaxDias == 3

MaxNegativos == 2

DiasLongo == 246

Dias == ((0 - MaxNegativos)..MaxDias) \cup {10, 15} \cup {DiasLongo}

\* lengths of the intervals asked of the aggregator (fim - inicio)
IntervaloCurto == 45

IntervaloLongo == 400

Comprimentos == {-1, 0, 1, IntervaloCurto, IntervaloLongo}

(***************************************************************************)
(* Operations                                                              *)
(***************************************************************************)

Registrar(c) == chamada' = c /\ historico' = Append(historico, c)

\* the threads of the process that may call the service
Threads == {1, 2}

\* a thread that is not inside a call of the service
Livre == [pc |-> "livre"]

Ocioso == [t \in Threads |-> Livre]

\* a clear_cache that leaves the entries where they are
clear_cache_sem_efeito ==
    /\ cache' = cache
    /\ Registrar([op |-> "clear_cache"])
    /\ UNCHANGED <<store, emcurso, relogio>>

\* CalendarioService.clear_cache
clear_cache ==
    /\ cache' = <<>>
    /\ Registrar([op |-> "clear_cache"])
    /\ UNCHANGED <<store, emcurso, relogio>>

\* the owner of the Holiday Store inserts a row
InserirFeriado(f) ==
    /\ f \notin store
    /\ store' = store \cup {f}
    /\ Registrar([op |-> "inserir", f |-> f])
    /\ UNCHANGED <<cache, emcurso, relogio>>

\* a call of CalendarioService._dias_recesso_cpc220
Chamar_dias_recesso_cpc220(inicio, fim) ==
    /\ Registrar([op |-> "dias_recesso_cpc220", inicio |-> inicio, fim |-> fim,
                  ret |-> dias_recesso_cpc220(inicio, fim)])
    /\ UNCHANGED <<store, cache, emcurso, relogio>>

\* a call of CalendarioService.feriados_aplicaveis
Retorno_feriados_aplicaveis(inicio, fim, comarca, municipio, aplicar_local, regras, r) ==
    /\ cache' = r.cache
    /\ Registrar([op |-> "feriados_aplicaveis", inicio |-> inicio, fim |-> fim,
                  comarca |-> comarca, municipio |-> municipio,
                  aplicar_local |-> aplicar_local, regras |-> regras,
                  hit |-> r.hit, ret |-> r.val])
    /\ UNCHANGED <<store, emcurso, relogio>>

Chamar_feriados_aplicaveis(inicio, fim, comarca, municipio, aplicar_local, regras) ==
    Retorno_feriados_aplicaveis(inicio, fim, comarca, municipio, aplicar_local, regras,
        feriados_aplicaveis(store, cache, inicio, fim, comarca, municipio, aplicar_local, regras))

\* a call of CalendarioService.proximo_dia_util
Retorno_proximo_dia_util(d, comarca, municipio, aplicar_local, regras, r) ==
    /\ cache' = r.cache
    /\ Registrar([op |-> "proximo_dia_util", d |-> d,
                  comarca |-> comarca, municipio |-> municipio,
                  aplicar_local |-> aplicar_local, regras |-> regras,
                  antes |-> cache, erro |-> r.erro, ret |-> r.val])
    /\ UNCHANGED <<store, emcurso, relogio>>

Chamar_proximo_dia_util(d, comarca, municipio, aplicar_local, regras) ==
    Retorno_proximo_dia_util(d, comarca, municipio, aplicar_local, regras,
        proximo_dia_util(store, cache, d, comarca, municipio, aplicar_local, regras))

\* a call of CalendarioService.somar_dias_uteis
Retorno_somar_dias_uteis(data_base, dias, comarca, municipio, excluir_dia_inicial, aplicar_local, regras, r) ==
    /\ cache' = r.cache
    /\ Registrar([op |-> "somar_dias_uteis", data_base |-> data_base, dias |-> dias,
                  comarca |-> comarca, municipio |-> municipio,
                  excluir_dia_inicial |-> excluir_dia_inicial,
                  aplicar_local |-> aplicar_local, regras |-> regras,
                  antes |-> cache, erro |-> r.erro, janelas |-> r.janelas, ret |-> r.val])
    /\ UNCHANGED <<store, emcurso, relogio>>

Chamar_somar_dias_uteis(data_base, dias, comarca, municipio, excluir_dia_inicial, aplicar_local, regras) ==
    Retorno_somar_dias_uteis(data_base, dias, comarca, municipio, excluir_dia_inicial,
        aplicar_local, regras,
        somar_dias_uteis(store, cache, data_base, dias, comarca, municipio,
                         excluir_dia_inicial, aplicar_local, regras))

\* a call of CalendarioService.prazo_dje_tjsp
Retorno_prazo_dje_tjsp(disponibilizacao, dias_uteis, comarca, municipio, aplicar_local, regras, r) ==
    /\ cache' = r.cache
    /\ Registrar([op |-> "prazo_dje_tjsp", disponibilizacao |-> disponibilizacao,
                  dias_uteis |-> dias_uteis,
                  comarca |-> comarca, municipio |-> municipio,
                  aplicar_local |-> aplicar_local, regras |-> regras,
                  antes |-> cache, erro |-> r.erro, publicacao |-> r.publicacao,
                  ret |-> r.val])
    /\ UNCHANGED <<store, emcurso, relogio>>

Chamar_prazo_dje_tjsp(disponibilizacao, dias_uteis, comarca, municipio, aplicar_local, regras) ==
    Retorno_prazo_dje_tjsp(disponibilizacao, dias_uteis, comarca, municipio, aplicar_local,
        regras,
        prazo_dje_tjsp(store, cache, disponibilizacao, dias_uteis, comarca, municipio,
                       aplicar_local, regras))

(***************************************************************************)
(* One call on a fresh process: the store is fixed, the cache starts empty *)
(***************************************************************************)

InitPuro ==
    /\ store \in StoresPuros
    /\ cache = <<>>
    /\ chamada = [op |-> "inicio"]
    /\ historico = <<>>
    /\ emcurso = Ocioso
    /\ relogio = 0

\* the call has not been made yet
Antes == historico = <<>>

NextPuro ==
    \/ \E d \in Datas \cup {date(2025, 6, 1)}, n \in Comprimentos :
         Antes /\ Chamar_dias_recesso_cpc220(d, d + n)
    \/ \E d \in Datas, n \in Comprimentos, c \in Contextos, r \in Regras :
         Antes /\ Chamar_feriados_aplicaveis(d, d + n, c[1], c[2], c[3], r)
    \/ \E d \in Datas, c \in Contextos, r \in Regras :
         Antes /\ Chamar_proximo_dia_util(d, c[1], c[2], c[3], r)
    \/ \E d \in Datas, n \in Dias, e \in BOOLEAN, c \in Contextos, r \in Regras :
         Antes /\ Chamar_somar_dias_uteis(d, n, c[1], c[2], e, c[3], r)
    \/ \E d \in Datas, n \in Dias, c \in Contextos, r \in Regras :
         Antes /\ Chamar_prazo_dje_tjsp(d, n, c[1], c[2], c[3], r)

SpecPuro == InitPuro /\ [][NextPuro]_vars

(***************************************************************************)
(* Sequential histories: insertions into the store, clear_cache and calls, *)
(* one after the other, on one process                                     *)
(***************************************************************************)

\* length of the histories explored
MaxPassos == 4

\* the rows the owner of the store may insert
FeriadosInseridos == {F_NACIONAL, F_MUNICIPAL}

\* the intervals asked of the aggregator: around each of the two rows
IntervalosSeq ==
    {<<date(2025, 12, 10), date(2025, 12, 14)>>, <<date(2026, 1, 30), date(2026, 2, 3)>>}

ContextosSeq == {<<None, None, TRUE>>, <<Ilhabela_SP, None, TRUE>>}

Init ==
    /\ store = {}
    /\ cache = <<>>
    /\ chamada = [op |-> "inicio"]
    /\ historico = <<>>
    /\ emcurso = Ocioso
    /\ relogio = 0

\* the history may still grow
Aberto == Len(historico) < MaxPassos

Next ==
    \/ \E f \in FeriadosInseridos : Aberto /\ InserirFeriado(f)
    \/ Aberto /\ clear_cache
    \/ \E i \in IntervalosSeq, c \in ContextosSeq :
         Aberto /\ Chamar_feriados_aplicaveis(i[1], i[2], c[1], c[2], c[3], SemRegras)
    \/ \E c \in ContextosSeq :
         Aberto /\ Chamar_proximo_dia_util(date(2025, 12, 12), c[1], c[2], c[3], SemRegras)
    \/ \E e \in BOOLEAN :
         Aberto /\ Chamar_somar_dias_uteis(date(2025, 12, 11), 1, None, None, e, TRUE, SemRegras)
    \/ Aberto /\ Chamar_prazo_dje_tjsp(date(2025, 12, 10), 1, None, None, TRUE, SemRegras)

Spec == Init /\ [][Next]_vars

(***************************************************************************)
(* One call of the aggregator over rows of every scope, under every rule   *)
(* set and with localities given in several ways                           *)
(***************************************************************************)

Ilhabela == <<"I", "l", "h", "a", "b", "e", "l", "a">>

Municipio_de_Ilhabela ==
    <<"M", "u", "n", "i", "c", "í", "p", "i", "o", " ", "d", "e", " ">> \o Ilhabela

Sao_Sebastiao == <<"S", "ã", "o", " ", "S", "e", "b", "a", "s", "t", "i", "ã", "o">>

Comarca_de_Sao_Sebastiao ==
    <<"C", "o", "m", "a", "r", "c", "a", " ", "d", "e", " ">> \o Sao_Sebastiao

\* a state row that carries a locality, and a municipal row of the neighbouring town
F_ESTADUAL == Feriado(date(2026, 2, 9), <<"e", "s", "t", "a", "d", "u", "a", "l">>, Ilhabela)

F_MUNICIPAL_SS == Feriado(date(2026, 2, 10), MUNICIPAL, Sao_Sebastiao)

\* rows whose scope label is empty, blank, or close to a canonical one, with a locality
F_SEM_ESCOPO == Feriado(date(2026, 2, 11), <<>>, Ilhabela)

F_ESCOPO_EM_BRANCO == Feriado(date(2026, 2, 12), <<" ", " ">>, Ilhabela)

F_MUNICIPAIS == Feriado(date(2026, 2, 13), <<"m", "u", "n", "i", "c", "i", "p", "a", "i", "s">>, Ilhabela)

FeriadosSemEscopo == {F_SEM_ESCOPO, F_ESCOPO_EM_BRANCO, F_MUNICIPAIS}

FeriadosPorEscopo == FeriadosVariados \cup {F_ESTADUAL, F_MUNICIPAL_SS} \cup FeriadosSemEscopo

StoresAplicaveis == {FeriadosPorEscopo, FeriadosPorEscopo \ {F_MUNICIPAL, F_COMARCA}}

\* null, blank, comarca only, municipality only, both and different, locality switched off
ContextosAplicaveis ==
    {<<None, None, TRUE>>,
     <<<<" ">>, <<>>, TRUE>>,
     <<Ilhabela_SP, <<" ">>, TRUE>>,
     <<<<>>, Municipio_de_Ilhabela, TRUE>>,
     <<Comarca_de_Sao_Sebastiao, Ilhabela, TRUE>>,
     <<Ilhabela_SP, Ilhabela, FALSE>>}

\* every combination of the five flags, and the argument regras=None
RegrasTodas ==
    {SemRegras} \cup
    [incluir_nacional : BOOLEAN, incluir_estadual_sp : BOOLEAN, incluir_tjsp_geral : BOOLEAN,
     incluir_tjsp_comarca : BOOLEAN, incluir_municipal : BOOLEAN]

\* the intervals asked: the days of the rows of February, and from December on
IntervalosAplicaveis ==
    {<<date(2026, 1, 30), date(2026, 2, 13)>>, <<date(2025, 12, 10), date(2026, 2, 13)>>}

InitAplicavel ==
    /\ store \in StoresAplicaveis
    /\ cache = <<>>
    /\ chamada = [op |-> "inicio"]
    /\ historico = <<>>
    /\ emcurso = Ocioso
    /\ relogio = 0

NextAplicavel ==
    \E i \in IntervalosAplicaveis, c \in ContextosAplicaveis, r \in RegrasTodas :
        Antes /\ Chamar_feriados_aplicaveis(i[1], i[2], c[1], c[2], c[3], r)

SpecAplicavel == InitAplicavel /\ [][NextAplicavel]_vars

(***************************************************************************)
(* The calendar the properties are stated against, written from the rule   *)
(* itself: a day is in the recess when it is Dec 20..31 or Jan 1..20       *)
(***************************************************************************)

no_recesso(d) ==
    \/ ord2ymd(d)[2] = 12 /\ ord2ymd(d)[3] >= 20
    \/ ord2ymd(d)[2] = 1 /\ ord2ymd(d)[3] <= 20

\* the dates of the rows of the whole store that apply to the context under the rules
datas_aplicaveis(st, ctx, rg) == {dt_date(f.data) : f \in {g \in st : eh_aplicavel(g, ctx, rg)}}

\* d is a business day against the full set: store dates plus the recess when court-general is on
dia_util_pleno(d, datas, rg) ==
    /\ weekday(d) < 5
    /\ d \notin datas
    /\ ~(rg.incluir_tjsp_geral /\ no_recesso(d))

\* the business days of [a, b] against the full set
dias_uteis_plenos(a, b, datas, rg) == {d \in a..b : dia_util_pleno(d, datas, rg)}

\* the context and the rules of the call recorded in chamada
ctx_da_chamada == resolve_context(chamada.comarca, chamada.municipio, chamada.aplicar_local)

regras_da_chamada == regras_or_default(chamada.regras)

datas_da_chamada == datas_aplicaveis(store, ctx_da_chamada, regras_da_chamada)

\* C1: for every base date, n >= 1, excluir_dia_inicial, rule set and store, somar_dias_uteis
\* returns a business day r (against the full holiday set) such that exactly n business
\* days lie in [cursor, r], cursor being base + 1 when the start day is excluded
C1_enesimo_dia_util ==
    (chamada.op = "somar_dias_uteis" /\ chamada.dias >= 1) =>
        /\ dia_util_pleno(chamada.ret, datas_da_chamada, regras_da_chamada)
        /\ Cardinality(dias_uteis_plenos(
               IF chamada.excluir_dia_inicial THEN chamada.data_base + 1 ELSE chamada.data_base,
               chamada.ret, datas_da_chamada, regras_da_chamada)) = chamada.dias

\* the two steps prazo_dje_tjsp is said to be made of
C2_publicacao ==
    proximo_dia_util(store, chamada.antes, chamada.disponibilizacao + 1, chamada.comarca,
                     chamada.municipio, chamada.aplicar_local, chamada.regras)

C2_prazo ==
    somar_dias_uteis(store, C2_publicacao.cache, C2_publicacao.val, chamada.dias_uteis,
                     chamada.comarca, chamada.municipio, TRUE, chamada.aplicar_local,
                     chamada.regras)

\* C2: prazo_dje_tjsp equals somar_dias_uteis(P, n, excluir_dia_inicial=True) with
\* P = proximo_dia_util(disponibilizacao + 1) under the same context and rules; P is the
\* first business day strictly after the availability date and is never counted
C2_composicao ==
    (chamada.op = "prazo_dje_tjsp" /\ chamada.dias_uteis >= 0) =>
        /\ chamada.publicacao = C2_publicacao.val
        /\ chamada.ret = C2_prazo.val
        /\ chamada.ret > chamada.publicacao
        /\ chamada.publicacao > chamada.disponibilizacao
        /\ dia_util_pleno(chamada.publicacao, datas_da_chamada, regras_da_chamada)
        /\ dias_uteis_plenos(chamada.disponibilizacao + 1, chamada.publicacao - 1,
                             datas_da_chamada, regras_da_chamada) = {}

\* margins of one day and of more than two years, next to the 120 days of the code
MargemCurta == 1

MargemLonga == 800

Margens == {MargemCurta, MARGEM_INICIAL_DIAS, MargemLonga}

\* C3: with the store fixed and the cache empty, somar_dias_uteis returns the same date
\* whatever the initial margin and the growth increment
C3_margens_indiferentes ==
    (chamada.op = "somar_dias_uteis" /\ chamada.dias >= 0) =>
        \A mi \in Margens, mc \in Margens :
            somar_com_margens(store, <<>>, chamada.data_base, chamada.dias, chamada.comarca,
                              chamada.municipio, chamada.excluir_dia_inicial,
                              chamada.aplicar_local, chamada.regras, mi, mc).val = chamada.ret

\* C4: for inicio <= fim of any distance, _dias_recesso_cpc220 returns exactly the days of
\* [inicio, fim] that lie in a window Dec 20 of a year through Jan 20 of the next
C4_recesso_exato ==
    (chamada.op = "dias_recesso_cpc220" /\ chamada.inicio <= chamada.fim) =>
        chamada.ret = {d \in chamada.inicio..chamada.fim : no_recesso(d)}

\* C5: with incluir_tjsp_geral on, every recess day of the interval is in the set
\* feriados_aplicaveis returns, whatever the store; with it off, every returned date is
\* the date of an applicable row of the store
C5_recesso_pela_regra ==
    chamada.op = "feriados_aplicaveis" =>
        IF regras_da_chamada.incluir_tjsp_geral
        THEN {d \in chamada.inicio..chamada.fim : no_recesso(d)} \subseteq chamada.ret
        ELSE chamada.ret \subseteq datas_da_chamada

\* C6: somar_dias_uteis(r, 0, excluir_dia_inicial=False) = r for the result r of
\* somar_dias_uteis(base, n, excluir_dia_inicial=True), for every n >= 0
C6_reajuste_idempotente ==
    (chamada.op = "somar_dias_uteis" /\ chamada.dias >= 0 /\ chamada.excluir_dia_inicial) =>
        somar_dias_uteis(store, cache, chamada.ret, 0, chamada.comarca, chamada.municipio,
                         FALSE, chamada.aplicar_local, chamada.regras).val = chamada.ret

\* C7: proximo_dia_util returns the smallest date >= d that is a business day against the
\* full holiday set, and asks the aggregator only for [d, d + 60]
C7_primeiro_dia_util ==
    chamada.op = "proximo_dia_util" =>
        /\ chamada.ret >= chamada.d
        /\ dia_util_pleno(chamada.ret, datas_da_chamada, regras_da_chamada)
        /\ dias_uteis_plenos(chamada.d, chamada.ret - 1, datas_da_chamada, regras_da_chamada) = {}
        /\ Len(cache) = 1
        /\ cache[1].key[1] = isoformat(chamada.d)
        /\ cache[1].key[2] = isoformat(chamada.d + JANELA_PROXIMO_DIAS)

\* no row of the store applies to the call on a day of [a, b]
sem_feriado_do_bd(a, b) == datas_da_chamada \cap (a..b) = {}

\* the weekdays of [a, b] outside the recess
dias_fora_do_recesso(a, b) == {d \in a..b : weekday(d) < 5 /\ ~no_recesso(d)}

\* the scenario of C8: disponibilizacao 2025-12-10, 10 business days, court-general on,
\* no holiday of the store in range
C8_cenario ==
    /\ chamada.op = "prazo_dje_tjsp"
    /\ chamada.disponibilizacao = date(2025, 12, 10)
    /\ chamada.dias_uteis = 10
    /\ regras_da_chamada.incluir_tjsp_geral
    /\ sem_feriado_do_bd(date(2025, 12, 10), date(2026, 2, 28))

\* C8, as amended: in the scenario prazo_dje_tjsp uses the publication date 2025-12-11,
\* counts no day of the recess Dec 20 - Jan 20 (the 10 days counted are the weekdays
\* outside the recess after the publication) and returns 2026-01-26, in January 2026
C8_prazo_em_janeiro ==
    C8_cenario =>
        /\ chamada.publicacao = date(2025, 12, 11)
        /\ Cardinality(dias_fora_do_recesso(chamada.publicacao + 1, chamada.ret)) = 10
        /\ ~no_recesso(chamada.ret)
        /\ chamada.ret = date(2026, 1, 26)

\* C8, the scenario computed: the deadline 2026-01-26 returned after publication 2025-12-11
C8_cenario_calculado ==
    /\ C8_cenario
    /\ chamada.publicacao = date(2025, 12, 11)
    /\ chamada.ret = date(2026, 1, 26)

\* C8, as stated: in the scenario prazo_dje_tjsp uses the publication date 2025-12-11,
\* counts no day of the recess and returns a deadline in February 2026
C8_prazo_em_fevereiro ==
    C8_cenario =>
        /\ chamada.publicacao = date(2025, 12, 11)
        /\ Cardinality(dias_fora_do_recesso(chamada.publicacao + 1, chamada.ret)) = 10
        /\ ~no_recesso(chamada.ret)
        /\ ord2ymd(chamada.ret)[1] = 2026
        /\ ord2ymd(chamada.ret)[2] = 2

\* the scenario of C9: disponibilizacao Friday 2026-01-30, 15 business days, aplicar_local
\* false, court-general on, no holiday of the store in range
C9_cenario ==
    /\ chamada.op = "prazo_dje_tjsp"
    /\ chamada.disponibilizacao = date(2026, 1, 30)
    /\ chamada.dias_uteis = 15
    /\ ~chamada.aplicar_local
    /\ regras_da_chamada.incluir_tjsp_geral
    /\ sem_feriado_do_bd(date(2026, 1, 30), date(2026, 2, 28))

\* C9: in the scenario the availability date is a Friday, prazo_dje_tjsp uses the
\* publication date Monday 2026-02-02 and returns 2026-02-23
C9_prazo_23_fev ==
    C9_cenario =>
        /\ weekday(chamada.disponibilizacao) = 4
        /\ chamada.publicacao = date(2026, 2, 2)
        /\ weekday(chamada.publicacao) = 0
        /\ chamada.ret = date(2026, 2, 23)

\* C9, the scenario computed: the deadline 2026-02-23 returned after publication 2026-02-02
C9_cenario_calculado ==
    /\ C9_cenario
    /\ chamada.publicacao = date(2026, 2, 2)
    /\ chamada.ret = date(2026, 2, 23)

\* the entry of the history is a call that reads through the cache
le_cache(c) ==
    c.op \in {"feriados_aplicaveis", "proximo_dia_util", "somar_dias_uteis", "prazo_dje_tjsp"}

\* the entry is a feriados_aplicaveis call whose interval contains the date of row f,
\* f applying to the call's context under its rules
cobre(c, f) ==
    /\ c.op = "feriados_aplicaveis"
    /\ dt_date(f.data) \in c.inicio..c.fim
    /\ eh_aplicavel(f, resolve_context(c.comarca, c.municipio, c.aplicar_local),
                    regras_or_default(c.regras))

\* the key of a feriados_aplicaveis entry of the history
chave_de(c) == cache_key(c.inicio, c.fim, c.comarca, c.municipio, c.aplicar_local, c.regras)

\* two feriados_aplicaveis entries with the same key
mesma_chave(c1, c2) ==
    /\ c1.op = "feriados_aplicaveis"
    /\ c2.op = "feriados_aplicaveis"
    /\ chave_de(c1) = chave_de(c2)

\* no clear_cache strictly between positions i and k of the history
sem_clear(i, k) == \A x \in (i + 1)..(k - 1) : historico[x].op # "clear_cache"

\* C10: (a) after clear_cache followed by the insertion of an applicable row on date D,
\* the next feriados_aplicaveis call whose interval contains D returns a set with D;
\* (b) with no clear_cache in between, a call with the key of an earlier call is answered
\* from the cache with the set the earlier call returned, insertions notwithstanding
C10_clear_cache_e_obsolescencia ==
    /\ \A i, j, k \in 1..Len(historico) :
           ( /\ i < j /\ j < k
             /\ historico[i].op = "clear_cache"
             /\ historico[j].op = "inserir"
             /\ \A x \in (i + 1)..(k - 1) : ~le_cache(historico[x])
             /\ cobre(historico[k], historico[j].f) )
           => dt_date(historico[j].f.data) \in historico[k].ret
    /\ \A i, k \in 1..Len(historico) :
           (i < k /\ mesma_chave(historico[i], historico[k]) /\ sem_clear(i, k))
           => (historico[k].hit /\ historico[k].ret = historico[i].ret)

\* C10, the stale answer: a key answered, then an applicable row inserted on a date D of
\* the interval, no clear_cache, and the same key answered again without D
C10_resposta_obsoleta ==
    \E i, j, k \in 1..Len(historico) :
        /\ i < j /\ j < k
        /\ historico[j].op = "inserir"
        /\ mesma_chave(historico[i], historico[k])
        /\ sem_clear(i, k)
        /\ cobre(historico[k], historico[j].f)
        /\ dt_date(historico[j].f.data) \notin historico[k].ret

\* C12: for every dias < 0, somar_dias_uteis raises ValueError and returns no date, before
\* any window of holidays is asked for, and the call leaves the cache and the store as
\* they were
C12_dias_negativos ==
    [][(chamada'.op = "somar_dias_uteis" /\ chamada'.dias < 0) =>
        /\ chamada'.erro = "ValueError"
        /\ chamada'.ret = 0
        /\ chamada'.janelas = 0
        /\ cache' = cache
        /\ store' = store]_vars

\* C12, the failed call: somar_dias_uteis called with a negative count has raised
C12_chamada_recusada ==
    /\ chamada.op = "somar_dias_uteis"
    /\ chamada.dias < 0
    /\ chamada.erro = "ValueError"

\* a string argument that is null or blank
em_branco(x) == x = None \/ strip(x) = <<>>

\* the call recorded in chamada resolves to the empty locality context by its arguments
sem_localidade ==
    \/ ~chamada.aplicar_local
    \/ em_branco(chamada.comarca) /\ em_branco(chamada.municipio)

\* the scopes that need a locality
ESCOPOS_LOCAIS == {MUNICIPAL, TJSP_COMARCA}

\* the dates of the rows of the store whose resolved scope is not a local one
datas_nao_locais == {dt_date(f.data) : f \in {g \in store : norm_escopo(g.escopo) \notin ESCOPOS_LOCAIS}}

\* C15: when applyLocal is false, or both locality strings are null or blank, the context
\* resolves to (None, None), the aggregator returns normally (a set of days of the interval)
\* and no MUNICIPAL or TJSP_COMARCA row contributes a date, whatever the flags: every
\* returned date is the date of a row of another scope or a day of the recess
C15_contexto_vazio ==
    (chamada.op = "feriados_aplicaveis" /\ sem_localidade) =>
        /\ ctx_da_chamada = [comarca |-> None, municipio |-> None]
        /\ chamada.ret \subseteq chamada.inicio..chamada.fim
        /\ \A d \in chamada.ret : d \in datas_nao_locais \/ no_recesso(d)

\* C15, the case: a call without locality, local flags on, over an interval of the store's
\* MUNICIPAL and TJSP_COMARCA rows, none of whose dates is returned
C15_locais_excluidos ==
    /\ chamada.op = "feriados_aplicaveis"
    /\ sem_localidade
    /\ regras_da_chamada.incluir_municipal /\ regras_da_chamada.incluir_tjsp_comarca
    /\ {F_MUNICIPAL, F_COMARCA} \subseteq store
    /\ chamada.inicio <= date(2026, 2, 3) /\ date(2026, 2, 6) <= chamada.fim
    /\ chamada.ret \cap {date(2026, 2, 3), date(2026, 2, 6)} = {}

\* no other row of the store falls on the day of row f, which is not a day of the recess
unico_no_dia(f) ==
    /\ \A g \in store \ {f} : dt_date(g.data) # dt_date(f.data)
    /\ ~no_recesso(dt_date(f.data))

\* the scenario of C16: the MUNICIPAL row recorded as "Foro de Ilhabela" is in the store and
\* the call passes comarca "Ilhabela/SP", a blank municipality and aplicar_local true
C16_cenario ==
    /\ chamada.op = "feriados_aplicaveis"
    /\ F_MUNICIPAL \in store
    /\ chamada.comarca = Ilhabela_SP
    /\ em_branco(chamada.municipio)
    /\ chamada.aplicar_local
    /\ dt_date(F_MUNICIPAL.data) \in chamada.inicio..chamada.fim

\* C16: in the scenario both strings normalize to "ilhabela", _match_local is true, and the
\* day of the row is in the returned set when incluir_municipal is on and is absent when
\* it is off (no other row and no recess falling on that day)
C16_foro_de_ilhabela ==
    C16_cenario =>
        /\ norm(F_MUNICIPAL.local) = lower(Ilhabela)
        /\ norm(chamada.comarca) = lower(Ilhabela)
        /\ match_local(norm(F_MUNICIPAL.local), ctx_da_chamada.comarca)
        /\ unico_no_dia(F_MUNICIPAL)
        /\ regras_da_chamada.incluir_municipal <=> dt_date(F_MUNICIPAL.data) \in chamada.ret

\* C16, the scenario with the municipal flag on and the day of the row returned
C16_incluido ==
    /\ C16_cenario
    /\ regras_da_chamada.incluir_municipal
    /\ dt_date(F_MUNICIPAL.data) \in chamada.ret

\* the rows of the store of resolved scope esc that fall in the interval of the call, alone
\* on their day
linhas_do_escopo(esc) ==
    {f \in store : /\ norm_escopo(f.escopo) = esc
                   /\ dt_date(f.data) \in chamada.inicio..chamada.fim
                   /\ unico_no_dia(f)}

\* the day of row f is in the set the call returned
incluida(f) == dt_date(f.data) \in chamada.ret

\* the normalized locality of row f matches the context municipality, the context comarca
casa_municipio(f) == match_local(norm(f.local), ctx_da_chamada.municipio)

casa_comarca(f) == match_local(norm(f.local), ctx_da_chamada.comarca)

\* C18: a row of resolved scope MUNICIPAL is included if and only if incluir_municipal is
\* set and its locality matches the context municipality or the context comarca
C18_municipal ==
    chamada.op = "feriados_aplicaveis" =>
        \A f \in linhas_do_escopo(MUNICIPAL) :
            incluida(f) <=>
                (regras_da_chamada.incluir_municipal /\ (casa_municipio(f) \/ casa_comarca(f)))

\* C18, the case of the comarca: a MUNICIPAL row that matches the comarca and not the
\* municipality is included
C18_pela_comarca ==
    /\ chamada.op = "feriados_aplicaveis"
    /\ \E f \in linhas_do_escopo(MUNICIPAL) :
           incluida(f) /\ casa_comarca(f) /\ ~casa_municipio(f)

\* C19: a row of resolved scope TJSP_COMARCA is included if and only if
\* incluir_tjsp_comarca is set and its locality matches the context comarca; a match with
\* the municipality does not include it
C19_tjsp_comarca ==
    chamada.op = "feriados_aplicaveis" =>
        \A f \in linhas_do_escopo(TJSP_COMARCA) :
            incluida(f) <=> (regras_da_chamada.incluir_tjsp_comarca /\ casa_comarca(f))

\* C19, the case of the municipality alone: comarca blank, the municipality matches a
\* TJSP_COMARCA row, the flag is on and the row is not included
C19_so_municipio ==
    /\ chamada.op = "feriados_aplicaveis"
    /\ em_branco(chamada.comarca)
    /\ regras_da_chamada.incluir_tjsp_comarca
    /\ \E f \in linhas_do_escopo(TJSP_COMARCA) : casa_municipio(f) /\ ~incluida(f)

\* C20: a row of resolved scope NACIONAL, ESTADUAL_SP or TJSP_GERAL is included if and only
\* if the flag of its scope is set, whatever its locality, the comarca and municipality of
\* the call, aplicar_local and the other four flags
C20_escopos_gerais ==
    chamada.op = "feriados_aplicaveis" =>
        /\ \A f \in linhas_do_escopo(NACIONAL) :
               incluida(f) <=> regras_da_chamada.incluir_nacional
        /\ \A f \in linhas_do_escopo(ESTADUAL_SP) :
               incluida(f) <=> regras_da_chamada.incluir_estadual_sp
        /\ \A f \in linhas_do_escopo(TJSP_GERAL) :
               incluida(f) <=> regras_da_chamada.incluir_tjsp_geral

\* C20, a flag alone: only incluir_estadual_sp is set, locality is switched off, and the
\* state row recorded with a locality is the one row returned
C20_so_estadual ==
    /\ chamada.op = "feriados_aplicaveis"
    /\ ~chamada.aplicar_local
    /\ regras_da_chamada = [TodasFalsas EXCEPT !.incluir_estadual_sp = TRUE]
    /\ F_ESTADUAL \in linhas_do_escopo(ESTADUAL_SP)
    /\ linhas_do_escopo(NACIONAL) # {}
    /\ chamada.ret = {dt_date(F_ESTADUAL.data)}

\* C17: somar_dias_uteis(base, 0, excluir_dia_inicial=False) returns a business day >= base
\* (against the full holiday set) with no business day in [base, result), and base itself
\* when base is a business day
C17_ajuste_para_frente ==
    (chamada.op = "somar_dias_uteis" /\ chamada.dias = 0 /\ ~chamada.excluir_dia_inicial) =>
        /\ chamada.erro = ""
        /\ chamada.ret >= chamada.data_base
        /\ dia_util_pleno(chamada.ret, datas_da_chamada, regras_da_chamada)
        /\ dias_uteis_plenos(chamada.data_base, chamada.ret - 1,
                             datas_da_chamada, regras_da_chamada) = {}
        /\ dia_util_pleno(chamada.data_base, datas_da_chamada, regras_da_chamada)
               => chamada.ret = chamada.data_base

\* C17, the long snap: from a day of the recess, over the recess and the suspension that
\* follows it, past the first window of holidays, to the first business day
C17_ajuste_longo ==
    /\ chamada.op = "somar_dias_uteis" /\ chamada.dias = 0 /\ ~chamada.excluir_dia_inicial
    /\ chamada.janelas > 1
    /\ chamada.ret > chamada.data_base + MARGEM_INICIAL_DIAS
    /\ dia_util_pleno(chamada.ret, datas_da_chamada, regras_da_chamada)

(***************************************************************************)
(* Calls step by step: each access to the cache or to the store, and each  *)
(* iteration of a loop, is one step of the calling thread, so that calls   *)
(* of several threads, insertions and clear_cache interleave               *)
(***************************************************************************)

\* the error a failing query of the store raises (sqlalchemy.exc.SQLAlchemyError)
ERRO_DO_BD == "SQLAlchemyError"

\* the arguments the loops of a call keep using, with the context they resolve to
locais_fixos(base, dias, comarca, municipio, excluir_dia_inicial, aplicar_local, regras) ==
    [base |-> base, dias |-> dias, comarca |-> comarca, municipio |-> municipio,
     excluir_dia_inicial |-> excluir_dia_inicial, aplicar_local |-> aplicar_local,
     regras |-> regras_or_default(regras), margem_crescimento |-> MARGEM_CRESCIMENTO_DIAS,
     ctx |-> resolve_context(comarca, municipio, aplicar_local)]

\* the key feriados_aplicaveis builds for a window: the context it resolves depends on
\* the arguments of the call only, so it is the same for every window of the call
chave_pedida(a, inicio, fim) == chave(inicio, fim, a.ctx, a.regras)

\* a return that hands the caller the set the cache holds for the key
sem_copia(key) == [na_cache |-> TRUE, key |-> key]

\* "return set(_feriados_aplicaveis_cached(...))": the caller is handed a new set, which
\* is not the frozenset the cache holds for the key
set_copia(key) == [na_cache |-> FALSE, key |-> key]

\* the frame of a call that has just been entered
em_chamada(args, etapa, pc, a, janela) ==
    [pc |-> pc, args |-> args, etapa |-> etapa, a |-> a, janela |-> janela,
     key |-> chave_pedida(a, janela[1], janela[2]),
     lido |-> {}, valor |-> {}, publicacao |-> 0, excecao |-> "",
     s |-> [atual |-> janela[1], fim_janela |-> janela[2], feriados |-> {}, contador |-> 0,
            cache |-> <<>>, janelas |-> 0, fase |-> "validar"],
     consultas |-> <<>>, acertos |-> <<>>, iniciada |-> Len(historico) + 1,
     entregues |-> <<>>, crescida |-> FALSE, objeto |-> [na_cache |-> FALSE, key |-> <<>>]]

\* a thread enters a call
Iniciar(t, c) ==
    /\ emcurso[t] = Livre
    /\ emcurso' = [emcurso EXCEPT ![t] = c]
    /\ Registrar([op |-> "iniciar", t |-> t, chamada |-> c.args])
    /\ UNCHANGED <<store, cache, relogio>>

\* feriados_aplicaveis entered: the key is built and the cached function is called
Iniciar_feriados_aplicaveis(t, inicio, fim, comarca, municipio, aplicar_local, regras) ==
    Iniciar(t, em_chamada([op |-> "feriados_aplicaveis", inicio |-> inicio, fim |-> fim,
                           comarca |-> comarca, municipio |-> municipio,
                           aplicar_local |-> aplicar_local, regras |-> regras],
                          "agregador", "lookup",
                          locais_fixos(inicio, 0, comarca, municipio, FALSE, aplicar_local, regras),
                          <<inicio, fim>>))

\* proximo_dia_util entered: it asks for the holidays of [d, d + 60]
Iniciar_proximo_dia_util(t, d, comarca, municipio, aplicar_local, regras) ==
    Iniciar(t, em_chamada([op |-> "proximo_dia_util", d |-> d,
                           comarca |-> comarca, municipio |-> municipio,
                           aplicar_local |-> aplicar_local, regras |-> regras],
                          "proximo", "lookup",
                          locais_fixos(d, 0, comarca, municipio, FALSE, aplicar_local, regras),
                          <<d, d + JANELA_PROXIMO_DIAS>>))

\* somar_dias_uteis entered: the validation of dias comes first
Iniciar_somar_dias_uteis(t, data_base, dias, comarca, municipio, excluir_dia_inicial, aplicar_local, regras) ==
    Iniciar(t, em_chamada([op |-> "somar_dias_uteis", data_base |-> data_base, dias |-> dias,
                           comarca |-> comarca, municipio |-> municipio,
                           excluir_dia_inicial |-> excluir_dia_inicial,
                           aplicar_local |-> aplicar_local, regras |-> regras],
                          "somar", "local",
                          locais_fixos(data_base, dias, comarca, municipio, excluir_dia_inicial,
                                       aplicar_local, regras),
                          <<data_base, data_base>>))

\* prazo_dje_tjsp entered: it calls proximo_dia_util on the day after the availability
Iniciar_prazo_dje_tjsp(t, disponibilizacao, dias_uteis, comarca, municipio, aplicar_local, regras) ==
    Iniciar(t, em_chamada([op |-> "prazo_dje_tjsp", disponibilizacao |-> disponibilizacao,
                           dias_uteis |-> dias_uteis,
                           comarca |-> comarca, municipio |-> municipio,
                           aplicar_local |-> aplicar_local, regras |-> regras],
                          "proximo", "lookup",
                          locais_fixos(disponibilizacao + 1, dias_uteis, comarca, municipio, TRUE,
                                       aplicar_local, regras),
                          <<disponibilizacao + 1, disponibilizacao + 1 + JANELA_PROXIMO_DIAS>>))

\* the cached function has returned v to the call: the caller goes on with it. In
\* somar_dias_uteis the first window starts the loops; a later one is joined inside
\* "if atual > fim_janela", and the test of the cursor follows it in the same iteration
entregar(c, v) ==
    IF c.etapa = "somar"
    THEN IF c.s.fase = "primeira"
         THEN [c EXCEPT !.pc = "local",
                        !.s = estado_inicial(c.janela[1], c.janela[2], [val |-> v, cache |-> <<>>]),
                        !.entregues = Append(@, [janela |-> c.janela, val |-> v]),
                        !.objeto = set_copia(c.key)]
         ELSE [c EXCEPT !.pc = "local",
                        !.s = juntar(c.s, c.janela[2], [val |-> v, cache |-> <<>>]),
                        !.entregues = Append(@, [janela |-> c.janela, val |-> v]),
                        !.crescida = TRUE]
    ELSE [c EXCEPT !.pc = "local", !.valor = v, !.objeto = set_copia(c.key)]

\* the cache ca once set o has had the dates of v added to it in place: an entry changes
\* only if o is the set the cache holds
uniao_em(ca, o, v) ==
    IF o.na_cache /\ cache_index(ca, o.key) # 0
    THEN [ca EXCEPT ![cache_index(ca, o.key)].val = @ \cup v]
    ELSE ca

\* the cache ca once the caller has v: "feriados |= ..." of somar_dias_uteis adds a later
\* window to the set the call got for its first window
uniao_no_lugar(ca, c, v) ==
    IF c.etapa = "somar" /\ c.s.fase # "primeira" THEN uniao_em(ca, c.objeto, v) ELSE ca

\* a thread has executed one more step of its call
Executado == relogio' = 1 - relogio

\* the lookup of the lru_cache wrapper: a hit returns the entry and makes it the most
\* recent one, a miss goes on to call the function
Procurar_em(t, c, key, i) ==
    /\ c.pc = "lookup"
    /\ IF i # 0
       THEN /\ cache' = uniao_no_lugar(lru_hit(cache, i).cache, c, cache[i].val)
            /\ emcurso' = [emcurso EXCEPT ![t] = entregar([c EXCEPT !.acertos = Append(@, key)],
                                                          cache[i].val)]
       ELSE /\ cache' = cache
            /\ emcurso' = [emcurso EXCEPT ![t] = [c EXCEPT !.pc = "consulta"]]
    /\ Executado
    /\ UNCHANGED <<store, chamada, historico>>

Procurar_chave(t, c, key) == Procurar_em(t, c, key, cache_index(cache, key))

Procurar(t) ==
    /\ emcurso[t] # Livre
    /\ Procurar_chave(t, emcurso[t], emcurso[t].key)

\* _feriados_periodo: the query of the store returns the rows of the window
Consultar_em(t, c) ==
    /\ c.pc = "consulta"
    /\ emcurso' = [emcurso EXCEPT ![t] =
                      [c EXCEPT !.pc = "guardar",
                                !.lido = feriados_periodo(store, c.janela[1], c.janela[2]),
                                !.consultas = Append(@, c.key)]]
    /\ Executado
    /\ UNCHANGED <<store, cache, chamada, historico>>

Consultar(t) == emcurso[t] # Livre /\ Consultar_em(t, emcurso[t])

\* the call ends: its result, or the exception it raised, reaches the caller
Devolver(t, c, erro, ret) ==
    /\ emcurso' = [emcurso EXCEPT ![t] = Livre]
    /\ Registrar(c.args @@ [t |-> t, erro |-> erro, ret |-> ret, publicacao |-> c.publicacao,
                            janelas |-> c.s.janelas, consultas |-> c.consultas,
                            acertos |-> c.acertos, iniciada |-> c.iniciada,
                            objeto |-> c.objeto])

\* a loop over the failing query that treats it as a query that found no rows
seguir_sem_linhas(c, key) ==
    [c EXCEPT !.pc = "guardar", !.lido = {}, !.consultas = Append(@, key)]

\* the exception leaves _feriados_periodo: nothing in feriados_aplicaveis, in the cached
\* function or in the callers of feriados_aplicaveis catches it, so the call unwinds
levantar(c, key) ==
    [c EXCEPT !.pc = "excecao", !.excecao = ERRO_DO_BD, !.consultas = Append(@, key)]

\* _feriados_periodo: the query of the store raises
Falhar_em(t, c, key) ==
    /\ c.pc = "consulta"
    /\ emcurso' = [emcurso EXCEPT ![t] = levantar(c, key)]
    /\ Registrar([op |-> "falha_bd", t |-> t, key |-> key])
    /\ Executado
    /\ UNCHANGED <<store, cache>>

Falhar(t) == emcurso[t] # Livre /\ Falhar_em(t, emcurso[t], emcurso[t].key)

\* the exception reaches the caller of the service
Propagar_em(t, c) ==
    /\ c.pc = "excecao"
    /\ Devolver(t, c, c.excecao, 0)
    /\ Executado
    /\ UNCHANGED <<store, cache>>

Propagar(t) == emcurso[t] # Livre /\ Propagar_em(t, emcurso[t])

\* the function has computed its set from the rows read; the wrapper stores it unless
\* the key was added to the cache while the function ran
Guardar_em(t, c, key, v) ==
    /\ c.pc = "guardar"
    /\ cache' = uniao_no_lugar(IF cache_index(cache, key) # 0 THEN cache
                                ELSE lru_miss(cache, key, v).cache,
                                c, v)
    /\ emcurso' = [emcurso EXCEPT ![t] = entregar(c, v)]
    /\ Executado
    /\ UNCHANGED <<store, chamada, historico>>

Guardar_chave(t, c, key) ==
    Guardar_em(t, c, key, feriados_aplicaveis_cached(c.lido, key[1], key[2], key[3], key[4], key[5]))

Guardar(t) ==
    /\ emcurso[t] # Livre
    /\ Guardar_chave(t, emcurso[t], emcurso[t].key)

\* feriados_aplicaveis returns what the cached function gave it
Retornar_em(t, c) ==
    /\ c.pc = "local" /\ c.etapa = "agregador"
    /\ Devolver(t, c, "", c.valor)
    /\ Executado
    /\ UNCHANGED <<store, cache>>

Retornar_feriados_aplicaveis(t) == emcurso[t] # Livre /\ Retornar_em(t, emcurso[t])

\* a window of holidays is asked of feriados_aplicaveis
pedir(c, inicio, fim) ==
    [c EXCEPT !.pc = "lookup", !.janela = <<inicio, fim>>, !.key = chave_pedida(c.a, inicio, fim)]

\* prazo_dje_tjsp has its publication date and calls somar_dias_uteis on it
contar_da_publicacao(c) ==
    [c EXCEPT !.etapa = "somar", !.publicacao = c.s.atual, !.a.base = c.s.atual]

\* one iteration of "while not eh_dia_util(atual, feriados)" of proximo_dia_util, or its return
Iterar_proximo_em(t, c) ==
    /\ c.pc = "local" /\ c.etapa = "proximo"
    /\ IF ~eh_dia_util(c.s.atual, c.valor)
       THEN /\ emcurso' = [emcurso EXCEPT ![t] = [c EXCEPT !.s.atual = @ + 1]]
            /\ UNCHANGED <<chamada, historico>>
       ELSE IF c.args.op = "prazo_dje_tjsp"
       THEN /\ emcurso' = [emcurso EXCEPT ![t] = contar_da_publicacao(c)]
            /\ UNCHANGED <<chamada, historico>>
       ELSE Devolver(t, c, "", c.s.atual)
    /\ Executado
    /\ UNCHANGED <<store, cache>>

Iterar_proximo(t) == emcurso[t] # Livre /\ Iterar_proximo_em(t, emcurso[t])

\* "atual = data_base + 1 if excluir_dia_inicial else data_base"
primeiro_dia(a) == IF a.excluir_dia_inicial THEN a.base + 1 ELSE a.base

\* the start of somar_dias_uteis: "if dias < 0: raise", then the first window is asked
Validar_somar_em(t, c) ==
    /\ c.pc = "local" /\ c.etapa = "somar" /\ c.s.fase = "validar"
    /\ IF c.a.dias < 0
       THEN Devolver(t, c, "ValueError", 0)
       ELSE /\ emcurso' = [emcurso EXCEPT ![t] =
                              pedir([c EXCEPT !.s.fase = "primeira"], primeiro_dia(c.a),
                                    primeiro_dia(c.a) + (c.a.dias + MARGEM_INICIAL_DIAS))]
            /\ UNCHANGED <<chamada, historico>>
    /\ Executado
    /\ UNCHANGED <<store, cache>>

Validar_somar(t) == emcurso[t] # Livre /\ Validar_somar_em(t, emcurso[t])

\* an iteration is about to read past the window: "if atual > fim_janela"
precisa_janela(a, s) ==
    /\ s.atual > s.fim_janela
    /\ (s.fase = "contar" /\ s.contador < a.dias) \/ s.fase = "garantir"

\* an iteration of the loops of somar_dias_uteis that has the window it needs
passo_local(a, s) ==
    IF s.fase = "contar"
    THEN IF s.contador < a.dias
         THEN contar(a, s)
         ELSE [s EXCEPT !.fase = "garantir"]
    ELSE IF s.fase = "garantir"
    THEN garantir(a, s)
    ELSE s

\* the iteration done: "return atual" once the loops are over
Seguir_somar(t, c, s) ==
    IF s.fase = "fim"
    THEN Devolver(t, [c EXCEPT !.s = s], "", s.atual)
    ELSE /\ emcurso' = [emcurso EXCEPT ![t] = [c EXCEPT !.s = s]]
         /\ UNCHANGED <<chamada, historico>>

\* one iteration of the loops of somar_dias_uteis: the next window is asked when the
\* cursor is past the last one, else the cursor or the counter moves
Iterar_somar_em(t, c) ==
    /\ c.pc = "local" /\ c.etapa = "somar" /\ c.s.fase \in {"contar", "garantir"}
    /\ IF ~c.crescida /\ precisa_janela(c.a, c.s)
       THEN /\ emcurso' = [emcurso EXCEPT ![t] =
                              pedir(c, c.s.fim_janela + 1, c.s.fim_janela + c.a.margem_crescimento)]
            /\ UNCHANGED <<chamada, historico>>
       ELSE Seguir_somar(t, [c EXCEPT !.crescida = FALSE], passo_local(c.a, c.s))
    /\ Executado
    /\ UNCHANGED <<store, cache>>

Iterar_somar(t) == emcurso[t] # Livre /\ Iterar_somar_em(t, emcurso[t])

(***************************************************************************)
(* Concurrent histories: two threads call the aggregator while the owner   *)
(* of the store inserts rows and clear_cache is called                     *)
(***************************************************************************)

\* calls entered in a history, and calls of clear_cache in it
MaxChamadas == 3

MaxClears == 1

eventos(op) == {i \in DOMAIN historico : historico[i].op = op}

PodeIniciar == Cardinality(eventos("iniciar")) < MaxChamadas

PodeLimpar == Cardinality(eventos("clear_cache")) < MaxClears

\* the interval the threads ask for and the row inserted meanwhile
IntervaloConc == <<date(2025, 12, 10), date(2025, 12, 14)>>

FeriadosConc == {F_NACIONAL}

InitConc ==
    /\ store = {}
    /\ cache = <<>>
    /\ chamada = [op |-> "inicio"]
    /\ historico = <<>>
    /\ emcurso = Ocioso
    /\ relogio = 0

NextConc ==
    \/ \E t \in Threads, c \in ContextosSeq :
         PodeIniciar /\ Iniciar_feriados_aplicaveis(t, IntervaloConc[1], IntervaloConc[2],
                                                    c[1], c[2], c[3], SemRegras)
    \/ \E t \in Threads : Procurar(t)
    \/ \E t \in Threads : Consultar(t)
    \/ \E t \in Threads : Guardar(t)
    \/ \E t \in Threads : Retornar_feriados_aplicaveis(t)
    \/ \E f \in FeriadosConc : InserirFeriado(f)
    \/ PodeLimpar /\ clear_cache

SpecConc == InitConc /\ [][NextConc]_vars

\* the rows of the store when event k of the history happened
store_em(k) == {historico[j].f : j \in {i \in eventos("inserir") : i < k}}

\* what the aggregator call returned at event k computes from the store of that moment
conjunto_em(k, key) ==
    feriados_aplicaveis_cached(store_em(k), key[1], key[2], key[3], key[4], key[5])

\* the return at event k is the set computed from the store of that moment
atualizado(k) == historico[k].ret = conjunto_em(k, chave_de(historico[k]))

\* no row was inserted after event i and before event k
sem_insercao(i, k) == \A j \in eventos("inserir") : j < i \/ j > k

\* C11: in every interleaving of aggregator calls, insertions and clear_cache, a call
\* that starts after a clear_cache has completed, with no change of the store after that
\* clear, returns the set computed from the current store; and after a call that was in
\* flight when the clear ran, the next call with the same key returns the current set
C11_clear_visivel_a_quem_comeca_depois ==
    /\ \A k \in eventos("feriados_aplicaveis"), i \in eventos("clear_cache") :
           (i < historico[k].iniciada /\ sem_insercao(i, k)) => atualizado(k)
    /\ \A a \in eventos("feriados_aplicaveis"), b \in eventos("feriados_aplicaveis"),
          i \in eventos("clear_cache") :
           (/\ historico[a].iniciada < i /\ i < a
            /\ a < historico[b].iniciada
            /\ chave_de(historico[a]) = chave_de(historico[b])
            /\ sem_insercao(i, b)) => atualizado(b)

(***************************************************************************)
(* One thread, calls one after the other, against a store whose queries    *)
(* may fail                                                                *)
(***************************************************************************)

\* calls entered in a history
MaxChamadasFalha == 2

PodeIniciarFalha == Cardinality(eventos("iniciar")) < MaxChamadasFalha

\* the stores: one row, and the long suspension that makes somar_dias_uteis grow its window
StoresFalha == {{F_NACIONAL}, BlocoSuspensao}

InitFalha ==
    /\ store \in StoresFalha
    /\ cache = <<>>
    /\ chamada = [op |-> "inicio"]
    /\ historico = <<>>
    /\ emcurso = Ocioso
    /\ relogio = 0

NextFalha ==
    \/ PodeIniciarFalha /\ Iniciar_feriados_aplicaveis(1, IntervaloConc[1], IntervaloConc[2],
                                                       None, None, TRUE, SemRegras)
    \/ PodeIniciarFalha /\ Iniciar_proximo_dia_util(1, date(2025, 12, 12), None, None, TRUE, SemRegras)
    \/ \E b \in {date(2025, 12, 11), date(2025, 12, 26)}, n \in {-1, 0, 1} :
         PodeIniciarFalha /\ Iniciar_somar_dias_uteis(1, b, n, None, None, TRUE, TRUE, SemRegras)
    \/ \E n \in {-1, 1} :
         PodeIniciarFalha /\ Iniciar_prazo_dje_tjsp(1, date(2025, 12, 10), n, None, None, TRUE, SemRegras)
    \/ Procurar(1)
    \/ Consultar(1)
    \/ Falhar(1)
    \/ Propagar(1)
    \/ Guardar(1)
    \/ Retornar_feriados_aplicaveis(1)
    \/ Iterar_proximo(1)
    \/ Validar_somar(1)
    \/ Iterar_somar(1)

SpecFalha == InitFalha /\ [][NextFalha]_vars

\* the events of the history that are the end of a call
retornos == {k \in DOMAIN historico : "iniciada" \in DOMAIN historico[k]}

\* the end of the call whose query failed at event i, once it has ended
retorno_da_falha(i) ==
    {k \in retornos : /\ k > i
                      /\ historico[k].t = historico[i].t
                      /\ \A j \in retornos : (i < j /\ j < k) => historico[j].t # historico[i].t}

\* how many times a key occurs in a list of keys
vezes(q, key) == Cardinality({n \in DOMAIN q : q[n] = key})

\* the call that ended at event k asked the cached function for the key
pediu(k, key) == vezes(historico[k].consultas, key) + vezes(historico[k].acertos, key) > 0

\* the first call that ended after event i and asked for the key
primeiro_a_pedir(i, key) ==
    {k \in retornos : /\ k > i
                      /\ pediu(k, key)
                      /\ \A j \in retornos : (i < j /\ j < k) => ~pediu(j, key)}

\* the failed query was the last thing the call asked of the store, and it asked once
ultima_consulta(q, key) == Len(q) > 0 /\ q[Len(q)] = key /\ vezes(q, key) = 1

\* C14: when a query of the store fails inside feriados_aplicaveis, somar_dias_uteis,
\* proximo_dia_util or prazo_dje_tjsp, the same error reaches the caller and no date or
\* set is returned; the failed call does not query the store again for that window; no
\* cache entry is created for the failed key; and the next call that needs that key
\* queries the store again
C14_falha_do_bd_propagada ==
    \A i \in eventos("falha_bd") :
        /\ \A k \in retorno_da_falha(i) :
               /\ historico[k].erro = ERRO_DO_BD
               /\ historico[k].ret = 0
               /\ ultima_consulta(historico[k].consultas, historico[i].key)
        /\ retorno_da_falha(i) = {} =>
               /\ emcurso[historico[i].t].pc = "excecao"
               /\ ultima_consulta(emcurso[historico[i].t].consultas, historico[i].key)
        /\ (\A j \in eventos("iniciar") : j < i) =>
               cache_index(cache, historico[i].key) = 0
        /\ \A k \in retorno_da_falha(i) :
               \A m \in primeiro_a_pedir(k, historico[i].key) :
                   vezes(historico[m].consultas, historico[i].key) = 1

\* a call of somar_dias_uteis failed on the window it grew into, and the same call made
\* again queried that window again and returned its date
C14_falha_e_nova_consulta ==
    \E i \in eventos("falha_bd"), m \in retornos :
        /\ \E k \in retorno_da_falha(i) :
               /\ m \in primeiro_a_pedir(k, historico[i].key)
               /\ historico[k].op = "somar_dias_uteis"
               /\ Len(historico[k].consultas) = 2
        /\ historico[m].erro = ""
        /\ historico[m].janelas = 2

(***************************************************************************)
(* One call, iteration by iteration, on a thread that keeps running        *)
(***************************************************************************)

\* the base dates of the calls: before the recess, and in it before the long suspension
BasesTermina == {date(2025, 12, 11), date(2025, 12, 26)}

DiasTermina == {0, 1, MaxDias, DiasLongo}

InitTermina ==
    /\ store \in StoresPuros
    /\ cache = <<>>
    /\ chamada = [op |-> "inicio"]
    /\ historico = <<>>
    /\ emcurso = Ocioso
    /\ relogio = 0

\* a step of the thread inside its call
Passo(t) ==
    \/ Procurar(t)
    \/ Consultar(t)
    \/ Guardar(t)
    \/ Iterar_proximo(t)
    \/ Validar_somar(t)
    \/ Iterar_somar(t)

NextTermina ==
    \/ \E d \in BasesTermina, c \in ContextosSeq :
         Antes /\ Iniciar_proximo_dia_util(1, d, c[1], c[2], c[3], SemRegras)
    \/ \E d \in BasesTermina, n \in DiasTermina, e \in BOOLEAN, c \in ContextosSeq :
         Antes /\ Iniciar_somar_dias_uteis(1, d, n, c[1], c[2], e, c[3], SemRegras)
    \/ \E d \in BasesTermina, n \in DiasTermina, c \in ContextosSeq :
         Antes /\ Iniciar_prazo_dje_tjsp(1, d, n, c[1], c[2], c[3], SemRegras)
    \/ Passo(1)

\* the thread is inside a call and executes its next step
Executa(t) == emcurso[t] # Livre /\ Executado

\* the thread that is inside a call is scheduled again and the queries of the store answer
SpecTermina == InitTermina /\ [][NextTermina]_vars /\ WF_relogio(Executa(1))

\* the call has returned a date to its caller
devolveu_data ==
    /\ emcurso[1] = Livre
    /\ chamada.op \in {"proximo_dia_util", "somar_dias_uteis", "prazo_dje_tjsp"}
    /\ chamada.erro = ""
    /\ weekday(chamada.ret) < 5

\* C13: for every store and every n >= 0, a call of somar_dias_uteis, proximo_dia_util
\* or prazo_dje_tjsp that has started ends: the loops that advance the cursor and grow
\* the window reach a business day and the call returns it
C13_termina == (emcurso[1] # Livre) ~> devolveu_data

\* a call of somar_dias_uteis returned after its cursor left the first window and the
\* window grew
C13_retorno_apos_crescer ==
    /\ devolveu_data
    /\ chamada.op = "somar_dias_uteis"
    /\ chamada.janelas >= 2
    /\ chamada.ret > chamada.data_base + MARGEM_INICIAL_DIAS

\* the five canonical scopes
ESCOPOS_CANONICOS == {NACIONAL, ESTADUAL_SP, TJSP_GERAL, MUNICIPAL, TJSP_COMARCA}

\* the rows of the store, dated inside the interval asked, whose label resolves to no
\* canonical scope
linhas_sem_escopo ==
    {f \in store : /\ norm_escopo(f.escopo) \notin ESCOPOS_CANONICOS
                   /\ dt_date(f.data) \in chamada.inicio..chamada.fim
                   /\ unico_no_dia(f)}

\* C21: a row whose scope label, trimmed, upper-cased and alias-folded, is none of the five
\* canonical scopes (an empty or blank label included) is in no applicable set, under any
\* rule set and any context, and the call that meets it returns its set all the same
C21_escopo_desconhecido ==
    chamada.op = "feriados_aplicaveis" =>
        /\ \A f \in linhas_sem_escopo : ~incluida(f)
        /\ chamada.ret \subseteq chamada.inicio..chamada.fim
        /\ FeriadosSemEscopo \cup {F_OUTRO} \subseteq
               {f \in store : norm_escopo(f.escopo) \notin ESCOPOS_CANONICOS}

\* every flag set and the context of Ilhabela: the rows of unknown scope that carry the
\* locality Ilhabela are in the interval and out of the set, the municipal row is in it
C21_desconhecidos_fora ==
    /\ chamada.op = "feriados_aplicaveis"
    /\ regras_da_chamada = RegrasCalendario
    /\ ctx_da_chamada.municipio = norm(Ilhabela)
    /\ FeriadosSemEscopo \cup {F_OUTRO} \subseteq linhas_sem_escopo
    /\ F_MUNICIPAL \in store /\ incluida(F_MUNICIPAL)
    /\ chamada.ret \cap {dt_date(f.data) : f \in linhas_sem_escopo} = {}

\* row f of the store applies to the context of the call under its rules
aplica_se(f) == eh_aplicavel(f, ctx_da_chamada, regras_da_chamada)

\* C22: for every interval and every applicable row of the store dated d (at midnight), d
\* is in the set feriados_aplicaveis returns if and only if inicio <= d <= fim: a row dated
\* inicio or fim is included, a row dated fim + 1 is not, and every returned date, of the
\* store or of the recess, lies in [inicio, fim]
C22_intervalo_fechado ==
    chamada.op = "feriados_aplicaveis" =>
        /\ \A f \in store :
               aplica_se(f) =>
                   (incluida(f) <=> dt_date(f.data) \in chamada.inicio..chamada.fim)
        /\ chamada.ret \subseteq chamada.inicio..chamada.fim

\* an interval that starts before the municipal row and ends on its day: that row is in the
\* set, the court-general row of the next day applies and is not
C22_linha_no_fim ==
    /\ chamada.op = "feriados_aplicaveis"
    /\ chamada.inicio < chamada.fim
    /\ F_MUNICIPAL \in store /\ F_CPC220 \in store
    /\ chamada.fim = dt_date(F_MUNICIPAL.data)
    /\ chamada.fim + 1 = dt_date(F_CPC220.data)
    /\ aplica_se(F_MUNICIPAL) /\ incluida(F_MUNICIPAL)
    /\ aplica_se(F_CPC220) /\ ~incluida(F_CPC220)

\* C30: somar_dias_uteis(base, 0) returns what somar_dias_uteis(base, 1) returns, for
\* every base date, context and rules and both values of excluir_dia_inicial, and so
\* prazo_dje_tjsp with 0 business days returns what it returns with 1
C30_zero_como_um ==
    /\ (chamada.op = "somar_dias_uteis" /\ chamada.dias = 0) =>
           /\ chamada.erro = ""
           /\ chamada.ret = somar_dias_uteis(store, chamada.antes, chamada.data_base, 1,
                                             chamada.comarca, chamada.municipio,
                                             chamada.excluir_dia_inicial,
                                             chamada.aplicar_local, chamada.regras).val
    /\ (chamada.op = "prazo_dje_tjsp" /\ chamada.dias_uteis = 0) =>
           /\ chamada.erro = ""
           /\ chamada.ret = prazo_dje_tjsp(store, chamada.antes, chamada.disponibilizacao, 1,
                                           chamada.comarca, chamada.municipio,
                                           chamada.aplicar_local, chamada.regras).val

\* a call with 0 days whose base date is not a business day although it is counted: the
\* date returned is a later one
C30_zero_dias_em_dia_nao_util ==
    /\ chamada.op = "somar_dias_uteis" /\ chamada.dias = 0 /\ chamada.erro = ""
    /\ ~chamada.excluir_dia_inicial
    /\ store # {}
    /\ chamada.ret > chamada.data_base

\* every insertion of the history is followed by a clear_cache: the store has not changed
\* since the last clear_cache, or since the start when nothing was inserted
store_igual_desde_clear ==
    \A j \in eventos("inserir") : \E i \in eventos("clear_cache") : j < i

\* the tuple of the call: interval, normalised comarca and municipio, rule flags
tupla_da_chamada ==
    <<isoformat(chamada.inicio), isoformat(chamada.fim), ctx_da_chamada.comarca,
      ctx_da_chamada.municipio, regras_key(regras_da_chamada)>>

\* the evaluation of the call without the cache, against store st
sem_memo(st) ==
    aplicaveis(st, chamada.inicio, chamada.fim, ctx_da_chamada, regras_da_chamada)

\* C28: while the store has not changed since the last clear_cache (or since the start),
\* feriados_aplicaveis returns the set an evaluation without the cache computes from the
\* store; and the entry a lookup answers from has the tuple of the call (interval,
\* normalised comarca and municipio, rule flags) and a set computed for that tuple
C28_memo_transparente ==
    chamada.op = "feriados_aplicaveis" =>
        /\ store_igual_desde_clear => chamada.ret = sem_memo(store)
        /\ cache # <<>>
        /\ cache[Len(cache)] = [key |-> tupla_da_chamada, val |-> chamada.ret]
        /\ \E k \in 1..(Len(historico) + 1) : chamada.ret = sem_memo(store_em(k))

\* a row inserted, the cache cleared, and a call answered from the cache with the row's date
C28_acerto_com_store_igual ==
    /\ chamada.op = "feriados_aplicaveis"
    /\ chamada.hit
    /\ store # {}
    /\ store_igual_desde_clear
    /\ chamada.ret # {}

(***************************************************************************)
(* One process, calls one after the other, while the owner of the store    *)
(* inserts rows around a deadline                                          *)
(***************************************************************************)

\* a national holiday on Thursday 2025-12-11 and one on Monday 2025-12-15
F_QUINTA == Feriado(date(2025, 12, 11), NACIONAL, None)

F_SEGUNDA == Feriado(date(2025, 12, 15), NACIONAL, None)

FeriadosVersoes == {F_QUINTA, F_SEGUNDA}

NextVersoes ==
    \/ \E f \in FeriadosVersoes : Aberto /\ InserirFeriado(f)
    \/ Aberto /\ clear_cache
    \/ \E e \in BOOLEAN :
         Aberto /\ Chamar_somar_dias_uteis(date(2025, 12, 12), 1, None, None, e, TRUE, SemRegras)
    \/ \E d \in {date(2025, 12, 10), date(2025, 12, 11)} :
         Aberto /\ Chamar_prazo_dje_tjsp(d, 1, None, None, TRUE, SemRegras)

SpecVersoes == Init /\ [][NextVersoes]_vars

\* the versions the store went through: the rows inserted before each position
versoes_do_store == {store_em(k) : k \in 1..(Len(historico) + 1)}

\* C29: the date one prazo_dje_tjsp or one somar_dias_uteis call returns is the date the
\* call computes, without a cache, against one version of the store, the current one or an
\* earlier one
C29_uma_versao_do_store ==
    /\ chamada.op = "prazo_dje_tjsp" =>
           \E st \in versoes_do_store :
               chamada.ret = prazo_dje_tjsp(st, <<>>, chamada.disponibilizacao,
                                            chamada.dias_uteis, chamada.comarca,
                                            chamada.municipio, chamada.aplicar_local,
                                            chamada.regras).val
    /\ chamada.op = "somar_dias_uteis" =>
           \E st \in versoes_do_store :
               chamada.ret = somar_dias_uteis(st, <<>>, chamada.data_base, chamada.dias,
                                              chamada.comarca, chamada.municipio,
                                              chamada.excluir_dia_inicial,
                                              chamada.aplicar_local, chamada.regras).val

(***************************************************************************)
(* The helpers of the service called on their own                          *)
(***************************************************************************)

\* normalised localities, as _norm returns them, and strings it never returns
LocaisNormalizados ==
    {None, <<>>,
     <<"i", "l", "h", "a", "b", "e", "l", "a">>,
     <<"i", "l", "h", "a">>,
     <<"b", "e", "l", "a">>,
     <<"f", "o", "r", "o", " ", "i", "l", "h", "a", "b", "e", "l", "a">>,
     <<"i", "l", "h", "a", "b", "e", "l", "a", " ", "c", "e", "n", "t", "r", "o">>,
     <<"s", "a", "n", "t", "o", "s">>,
     <<"s", "a", "o", " ", "s", "e", "b", "a", "s", "t", "i", "a", "o">>,
     <<"s", "e", "b", "a", "s", "t", "i", "a", "o", " ", "s", "a", "o">>,
     <<" ">>,
     <<"c", "e", "n", "t", "r", "o", "\t", "i", "l", "h", "a", "b", "e", "l", "a">>}

\* scope labels as the rows of the store carry them
EscoposCrus ==
    {None, <<>>,
     <<" ", "C", "p", "c", "2", "2", "0", " ">>,
     <<"a", "r", "t", "_", "2", "2", "0">>,
     <<"R", "e", "c", "e", "s", "s", "o", "_", "T", "J", "S", "P">>,
     <<"e", "s", "t", "a", "d", "u", "a", "l">>,
     <<" ", "s", "p", "_", "e", "s", "t", "a", "d", "u", "a", "l">>,
     <<"E", "s", "t", "a", "d", "u", "a", "l", "_", "S", "P">>,
     <<"t", "j", "s", "p", "_", "g", "e", "r", "a", "l">>,
     <<" ", " ", "N", "a", "c", "i", "o", "n", "a", "l">>,
     <<"F", "e", "r", "i", "a", "d", "o">>,
     <<" ", "m", "u", "n", "i", "c", "i", "p", "a", "l", "\t">>,
     <<"T", "J", "S", "P", "_", "C", "O", "M", "A", "R", "C", "A">>,
     <<"c", "p", "c", " ", "2", "2", "0", " ">>}
        \cup {al[1] : al \in ESCOPO_ALIASES}
        \cup {<<" ">> \o lower(al[1]) \o <<" ">> : al \in ESCOPO_ALIASES}

SP == <<"/", "S", "P">>

ComarcasCruas == {None, <<>>, <<" ">>, SP, Ilhabela_SP, Comarca_de_Sao_Sebastiao}

MunicipiosCrus == {None, <<>>, <<" ">>, SP, Ilhabela, Sao_Sebastiao}

\* a call of CalendarioService._match_local
Chamar_match_local(loc_norm, alvo_norm) ==
    /\ Registrar([op |-> "match_local", loc_norm |-> loc_norm, alvo_norm |-> alvo_norm,
                  ret |-> match_local(loc_norm, alvo_norm)])
    /\ UNCHANGED <<store, cache, emcurso, relogio>>

\* a call of CalendarioService._norm_escopo
Chamar_norm_escopo(s) ==
    /\ Registrar([op |-> "norm_escopo", s |-> s, ret |-> norm_escopo(s)])
    /\ UNCHANGED <<store, cache, emcurso, relogio>>

\* a call of CalendarioService._resolve_context
Chamar_resolve_context(comarca, municipio, aplicar_local) ==
    /\ Registrar([op |-> "resolve_context", comarca |-> comarca, municipio |-> municipio,
                  aplicar_local |-> aplicar_local,
                  ret |-> resolve_context(comarca, municipio, aplicar_local)])
    /\ UNCHANGED <<store, cache, emcurso, relogio>>

InitFuncoes ==
    /\ store = {}
    /\ cache = <<>>
    /\ chamada = [op |-> "inicio"]
    /\ historico = <<>>
    /\ emcurso = Ocioso
    /\ relogio = 0

\* one call, and for _norm_escopo a second one on what the first returned
NextFuncoes ==
    \/ \E a \in LocaisNormalizados, b \in LocaisNormalizados :
         Antes /\ Chamar_match_local(a, b)
    \/ \E x \in EscoposCrus : Antes /\ Chamar_norm_escopo(x)
    \/ /\ Len(historico) = 1
       /\ chamada.op = "norm_escopo"
       /\ Chamar_norm_escopo(chamada.ret)
    \/ \E c \in ComarcasCruas, m \in MunicipiosCrus, l \in BOOLEAN :
         Antes /\ Chamar_resolve_context(c, m, l)

SpecFuncoes == InitFuncoes /\ [][NextFuncoes]_vars

\* p is the beginning of v
comeca(v, p) == \E k \in 0..Len(v) : SubSeq(v, 1, k) = p

\* sub occurs in v
ocorre(v, sub) == \E i \in 1..(Len(v) + 1), j \in 0..Len(v) : SubSeq(v, i, j) = sub

\* the words of v: its maximal runs without whitespace
palavras(v) ==
    {SubSeq(v, p[1], p[2]) :
        p \in {q \in (1..Len(v)) \X (1..Len(v)) :
                  /\ q[1] <= q[2]
                  /\ \A k \in q[1]..q[2] : v[k] \notin Whitespace
                  /\ (q[1] = 1 \/ v[q[1] - 1] \in Whitespace)
                  /\ (q[2] = Len(v) \/ v[q[2] + 1] \in Whitespace)}}

\* a string is missing or empty
vazio(v) == v = None \/ v = <<>>

\* C23: _match_local(a, b) is false when a or b is None or empty; otherwise it is true
\* exactly when a = b, or one begins with the other, or one occurs in the other, or they
\* have a word in common, and false in every other case
C23_match_local ==
    chamada.op = "match_local" =>
        chamada.ret =
            IF vazio(chamada.loc_norm) \/ vazio(chamada.alvo_norm)
            THEN FALSE
            ELSE \/ chamada.loc_norm = chamada.alvo_norm
                 \/ comeca(chamada.loc_norm, chamada.alvo_norm)
                 \/ comeca(chamada.alvo_norm, chamada.loc_norm)
                 \/ ocorre(chamada.loc_norm, chamada.alvo_norm)
                 \/ ocorre(chamada.alvo_norm, chamada.loc_norm)
                 \/ palavras(chamada.loc_norm) \cap palavras(chamada.alvo_norm) # {}

\* two localities that match by a common word only
C23_so_uma_palavra_em_comum ==
    /\ chamada.op = "match_local"
    /\ chamada.ret
    /\ ~ocorre(chamada.loc_norm, chamada.alvo_norm)
    /\ ~ocorre(chamada.alvo_norm, chamada.loc_norm)
    /\ Cardinality(palavras(chamada.loc_norm)) = 2

\* s without the whitespace around it: from its first to its last other character
aparado(s) ==
    IF \A i \in 1..Len(s) : s[i] \in Whitespace
    THEN <<>>
    ELSE SubSeq(s, CHOOSE i \in 1..Len(s) : s[i] \notin Whitespace /\ \A j \in 1..(i - 1) : s[j] \in Whitespace,
                   CHOOSE i \in 1..Len(s) : s[i] \notin Whitespace /\ \A j \in (i + 1)..Len(s) : s[j] \in Whitespace)

\* the label of the norm_escopo call, trimmed and in upper case
rotulo_da_chamada == upper(aparado(IF chamada.s = None THEN <<>> ELSE chamada.s))

\* the aliases the court-general and the state scope are known by
ALIASES_TJSP_GERAL == {<<"C", "P", "C", "2", "2", "0">>, <<"A", "R", "T", "_", "2", "2", "0">>, <<"R", "E", "C", "E", "S", "S", "O", "_", "T", "J", "S", "P">>}

ALIASES_ESTADUAL_SP == {<<"E", "S", "T", "A", "D", "U", "A", "L">>, <<"S", "P", "_", "E", "S", "T", "A", "D", "U", "A", "L">>}

\* C24: _norm_escopo trims its input, puts it in upper case and folds every alias of
\* _ESCOPO_ALIASES to its canonical scope, CPC220, ART_220 and RECESSO_TJSP to TJSP_GERAL,
\* ESTADUAL and SP_ESTADUAL to ESTADUAL_SP, in any letter case and with blanks around; a
\* label that is no alias is returned trimmed and in upper case; and _norm_escopo of what
\* _norm_escopo returned is that same value
C24_norm_escopo ==
    chamada.op = "norm_escopo" =>
        /\ rotulo_da_chamada \in ALIASES_TJSP_GERAL => chamada.ret = TJSP_GERAL
        /\ rotulo_da_chamada \in ALIASES_ESTADUAL_SP => chamada.ret = ESTADUAL_SP
        /\ \A al \in ESCOPO_ALIASES :
               /\ al[2] \in ESCOPOS_CANONICOS
               /\ rotulo_da_chamada = al[1] => chamada.ret = al[2]
        /\ rotulo_da_chamada \notin {al[1] : al \in ESCOPO_ALIASES} =>
               chamada.ret = rotulo_da_chamada
        /\ Len(historico) = 2 => chamada.ret = chamada.s

\* an alias in lower case with blanks around it folded to its scope, and the scope given
\* to _norm_escopo again
C24_alias_dobrado_duas_vezes ==
    /\ Len(historico) = 2
    /\ chamada.op = "norm_escopo"
    /\ historico[1].s \notin {al[1] : al \in ESCOPO_ALIASES}
    /\ historico[1].s # upper(historico[1].s)
    /\ Len(historico[1].s) > Len(upper(aparado(historico[1].s)))
    /\ upper(aparado(historico[1].s)) \in ALIASES_TJSP_GERAL
    /\ historico[2].ret = TJSP_GERAL

\* the municipality AUTO_MUNICIPIO_BY_COMARCA gives a comarca, the comarca itself when the
\* table has no entry for it
municipio_padrao(comarca_norm) ==
    IF comarca_norm \in {e[1] : e \in AUTO_MUNICIPIO_BY_COMARCA}
    THEN CHOOSE m \in {e[2] : e \in AUTO_MUNICIPIO_BY_COMARCA} :
             <<comarca_norm, m>> \in AUTO_MUNICIPIO_BY_COMARCA
    ELSE comarca_norm

\* C25: with aplicar_local true, _resolve_context returns (_norm(comarca), _norm(municipio)),
\* except that when _norm(comarca) is not empty and _norm(municipio) is empty the municipio
\* is the entry of AUTO_MUNICIPIO_BY_COMARCA for that comarca, or the normalised comarca
\* when the table has none; when only a municipio is given the comarca stays empty
C25_resolve_context ==
    (chamada.op = "resolve_context" /\ chamada.aplicar_local) =>
        /\ chamada.ret.comarca = norm(chamada.comarca)
        /\ chamada.ret.municipio =
               IF norm(chamada.comarca) # None /\ norm(chamada.municipio) = None
               THEN municipio_padrao(norm(chamada.comarca))
               ELSE norm(chamada.municipio)
        /\ em_branco(chamada.comarca) => chamada.ret.comarca = None

\* C25 as stated: the municipio is derived from the comarca only when the municipio passed
\* is blank (None, empty or whitespace), and is _norm(municipio) otherwise
C25_so_municipio_em_branco ==
    (chamada.op = "resolve_context" /\ chamada.aplicar_local) =>
        /\ chamada.ret.comarca = norm(chamada.comarca)
        /\ chamada.ret.municipio =
               IF norm(chamada.comarca) # None /\ em_branco(chamada.municipio)
               THEN municipio_padrao(norm(chamada.comarca))
               ELSE norm(chamada.municipio)
        /\ em_branco(chamada.comarca) => chamada.ret.comarca = None

\* a comarca with a municipio that is not blank and normalises to nothing: the municipio
\* of the context is derived from the comarca
C25_municipio_so_com_uf ==
    /\ chamada.op = "resolve_context" /\ chamada.aplicar_local
    /\ ~em_branco(chamada.municipio)
    /\ norm(chamada.municipio) = None
    /\ chamada.ret.comarca # None
    /\ chamada.ret.municipio = chamada.ret.comarca

\* the next step of the call tests its cursor with eh_dia_util: it is in one of the two
\* loops of somar_dias_uteis, past "if atual > fim_janela"
prestes_a_testar(c) ==
    /\ c # Livre
    /\ c.pc = "local" /\ c.etapa = "somar"
    /\ (c.s.fase = "contar" /\ c.s.contador < c.a.dias) \/ c.s.fase = "garantir"
    /\ c.crescida \/ c.s.atual <= c.s.fim_janela

\* the windows the call was given follow one another from its first cursor to the end
\* of its window, without a gap and without a day in two of them
janelas_seguidas(c) ==
    /\ c.entregues # <<>>
    /\ c.entregues[1].janela[1] = primeiro_dia(c.a)
    /\ c.entregues[Len(c.entregues)].janela[2] = c.s.fim_janela
    /\ \A i \in 1..Len(c.entregues) : c.entregues[i].janela[1] <= c.entregues[i].janela[2]
    /\ \A i \in 1..(Len(c.entregues) - 1) :
           c.entregues[i + 1].janela[1] = c.entregues[i].janela[2] + 1

\* C27: every time somar_dias_uteis tests its cursor with eh_dia_util, the cursor is not
\* past the end of the window, and the working set is the union of the sets
\* feriados_aplicaveis returned for consecutive windows, without overlap or gap, that
\* cover exactly the days from the first cursor to the end of the window
C27_cursor_dentro_da_janela ==
    \A t \in Threads :
        prestes_a_testar(emcurso[t]) =>
            /\ emcurso[t].s.atual \in primeiro_dia(emcurso[t].a)..emcurso[t].s.fim_janela
            /\ janelas_seguidas(emcurso[t])
            /\ emcurso[t].s.feriados =
                   UNION {emcurso[t].entregues[i].val : i \in 1..Len(emcurso[t].entregues)}
            /\ \A i \in 1..Len(emcurso[t].entregues) :
                   emcurso[t].entregues[i].val =
                       aplicaveis(store, emcurso[t].entregues[i].janela[1],
                                  emcurso[t].entregues[i].janela[2],
                                  emcurso[t].a.ctx, emcurso[t].a.regras)

\* the cursor about to be tested on the first day of a window that has just been joined
C27_teste_apos_crescer ==
    /\ prestes_a_testar(emcurso[1])
    /\ emcurso[1].crescida
    /\ Len(emcurso[1].entregues) = 2
    /\ emcurso[1].s.atual = emcurso[1].entregues[2].janela[1]
    /\ emcurso[1].s.feriados # {}

(***************************************************************************)
(* The sets the callers hold: somar_dias_uteis joins its windows in place, *)
(* and the caller of feriados_aplicaveis may change the set it was given   *)
(***************************************************************************)

\* changes a caller makes to sets it was given, in a history
MaxMutacoes == 1

\* the caller that was given a set at position k of the history adds date d to it
Mutar_retorno(k, d) ==
    /\ historico[k].op = "feriados_aplicaveis"
    /\ "objeto" \in DOMAIN historico[k]
    /\ historico[k].erro = ""
    /\ cache' = uniao_em(cache, historico[k].objeto, {d})
    /\ Registrar([op |-> "mutar", k |-> k, d |-> d])
    /\ UNCHANGED <<store, emcurso, relogio>>

NextObjetos ==
    \/ PodeIniciarFalha /\ Iniciar_feriados_aplicaveis(1, IntervaloConc[1], IntervaloConc[2],
                                                       None, None, TRUE, SemRegras)
    \/ \E b \in BasesTermina :
         PodeIniciarFalha /\ Iniciar_somar_dias_uteis(1, b, 1, None, None, TRUE, TRUE, SemRegras)
    \/ PodeLimpar /\ clear_cache
    \/ \E k \in DOMAIN historico :
         /\ Cardinality(eventos("mutar")) < MaxMutacoes
         /\ Mutar_retorno(k, IntervaloConc[1])
    \/ Procurar(1)
    \/ Consultar(1)
    \/ Guardar(1)
    \/ Retornar_feriados_aplicaveis(1)
    \/ Validar_somar(1)
    \/ Iterar_somar(1)

SpecObjetos == InitFalha /\ [][NextObjetos]_vars

\* the keys of the cache
chaves(ca) == {ca[i].key : i \in 1..Len(ca)}

\* C26: a set of the cache is never changed once stored: the unions somar_dias_uteis makes
\* in place on its working set while the window grows, and a change a caller makes to a
\* set feriados_aplicaveis returned, leave every entry of the cache as it was; an entry
\* leaves the cache only by clear_cache or by the eviction of a full cache
C26_entrada_imutavel ==
    [][ /\ \A i \in 1..Len(cache) : \A j \in 1..Len(cache') :
               cache'[j].key = cache[i].key => cache'[j].val = cache[i].val
        /\ ~(chaves(cache) \subseteq chaves(cache')) =>
               \/ historico' # historico /\ chamada'.op = "clear_cache"
               \/ Len(cache) >= CACHE_MAXSIZE ]_vars

\* a caller has added a date to the set it was given and the entry of that key does not
\* have the date, and somar_dias_uteis has joined a second window to its working set
\* while the entry of its first window is the set of that window alone
C26_uniao_e_mutacao ==
    /\ \E m \in eventos("mutar") :
           \E i \in 1..Len(cache) :
               /\ cache[i].key = historico[historico[m].k].objeto.key
               /\ historico[m].d \notin cache[i].val
    /\ emcurso[1] # Livre
    /\ Len(emcurso[1].entregues) = 2
    /\ emcurso[1].entregues[2].val # {}
    /\ \E i \in 1..Len(cache) :
           /\ cache[i].key = emcurso[1].objeto.key
           /\ cache[i].val = emcurso[1].entregues[1].val
           /\ cache[i].val # emcurso[1].s.feriados

====
